---- MODULE Spec2Model ----
(***************************************************************************)
(* Advisory & History subsystem of the Quantum Job Tracker:                *)
(*   utils/queue_predictor.py      QueuePredictor                          *)
(*   utils/notification_manager.py NotificationManager                     *)
(*   utils/historical_analyzer.py  HistoricalAnalyzer                      *)
(*   utils/backend_recommender.py  BackendRecommender                      *)
(* Each component is a keyed store of lists held in memory and dumped as a *)
(* whole to a JSON file after every mutation.                              *)
(*                                                                         *)
(* Conventions                                                             *)
(*   - a Python dict is a function; "key in dict" is key \in DOMAIN dict   *)
(*   - a Python list is a sequence                                         *)
(*   - datetime.now() is read off the variable clock, counted in ticks of  *)
(*     1/TicksPerSecond second; a handler that stamps a record advances it *)
(*   - None is the record NoneVal                                          *)
(***************************************************************************)
EXTENDS Integers, Sequences, FiniteSets, TLC

VARIABLES
    clock,                \* wall clock, in ticks
    disk,                 \* state of the file system the JSON files live on
    queue_history,        \* QueuePredictor.history: target -> list of samples
    queue_history_file,   \* content of queue_history.json
    queue_recorded,       \* ghost: every sample ever recorded, per target
    notifications,        \* NotificationManager.notifications: user -> list
    notifications_file,   \* content of notifications.json
    notifications_sent,   \* ghost: every notification ever sent, per user
    slack_webhook,        \* NotificationManager.slack_webhook ("" when not configured)
    slack_posts,          \* requests.post calls made so far: payload and outcome
    job_history,          \* HistoricalAnalyzer.history: job id -> list of events
    job_history_file,     \* content of job_history.json
    events_recorded,      \* ghost: every event ever recorded, per job
    backend_status_cache, \* the snapshot a caller hands to the recommender:
                          \* (name, info) pairs in the dict's iteration order
    ret,                  \* what the last call returned
    threads,              \* the request threads: where each is in its handler,
                          \* and its local variables
    list_version,         \* per store key: how many list objects the dict has
                          \* held under that key
    orphans,              \* list objects no dict holds any more, each kept for
                          \* as long as a thread holds a reference to it
    user_services,        \* app.py user_services: user id -> service handles
    user_backends,        \* app.py user_backends: user id -> backends pulled
    user_jobs,            \* app.py user_jobs: user id -> jobs pulled
    refresh_thread,       \* the background refresh thread: where it is in
                          \* its loop, and the users still to visit
    pulls,                \* number of pulls made from the remote service
    fetcher_cache         \* BackendDataFetcher.cache: backend name -> (data, time)

history_vars == <<job_history, job_history_file, events_recorded>>
predictor_vars == <<queue_history, queue_history_file, queue_recorded>>
notification_vars == <<notifications, notifications_file, notifications_sent,
                       slack_webhook, slack_posts>>
stores == <<history_vars, predictor_vars, notification_vars>>
thread_vars == <<threads, list_version, orphans>>
app_vars == <<user_services, user_backends, user_jobs, refresh_thread, pulls,
             fetcher_cache>>

vars == <<clock, disk, history_vars, predictor_vars, notification_vars,
          backend_status_cache, ret, thread_vars, app_vars>>

----------------------------------------------------------------------------
(* Bounds of the model *)

MaxClock == 2          \* number of record-stamping calls explored
MaxEvents == 3         \* number of record_job_event calls explored
MaxPendingJobs == 27   \* largest pending_jobs of a snapshot entry
MaxQubits == 102       \* largest qubits of a snapshot entry
MaxSnapshot == 4       \* largest number of targets in a snapshot
TicksPerSecond == 2    \* clock resolution of the model
NumThreads == 2        \* number of request threads
MaxPulls == 3          \* number of pulls from the remote service explored
MaxElapsed == 1300     \* ticks of wall-clock time explored around the cache timeout

(* Program constants *)

MaxSamples == 1000         \* queue_predictor.py: entries kept per backend
MaxNotifications == 100    \* notification_manager.py: entries kept per user
QubitsPerPoint == 5        \* backend_recommender.py: qubits / 5

----------------------------------------------------------------------------
(* Python values *)

NoneVal == [kind |-> "none"]
IntVal(i) == [kind |-> "int", value |-> i]
StrVal(str) == [kind |-> "str", str |-> str]
\* the outcome of a call that can raise: the value returned, or the exception
OkVal(result) == [kind |-> "ok", result |-> result]
Raised(error) == [kind |-> "raised", error |-> error]

Min(a, b) == IF a < b THEN a ELSE b
Max(a, b) == IF a > b THEN a ELSE b

EmptyDict == [k \in {} |-> <<>>]

\* d[k] = v, adding the key when absent
DictSet(d, k, v) == [x \in (DOMAIN d) \cup {k} |-> IF x = k THEN v ELSE d[x]]

\* dict.get(key, default)
Get(d, key, default) == IF key \in DOMAIN d THEN d[key] ELSE default

\* lst[:n]
FirstN(lst, n) == IF Len(lst) > n THEN SubSeq(lst, 1, n) ELSE lst

\* lst[-n:]
LastN(lst, n) ==
    IF Len(lst) > n THEN SubSeq(lst, Len(lst) - n + 1, Len(lst)) ELSE lst

\* sum(lst) for a list of integers (balanced, so that long lists stay shallow)
RECURSIVE SumRange(_, _, _)
SumRange(lst, lo, hi) ==
    IF lo > hi THEN 0
    ELSE IF lo = hi THEN lst[lo]
    ELSE LET mid == (lo + hi) \div 2
         IN  SumRange(lst, lo, mid) + SumRange(lst, mid + 1, hi)

sum(lst) == SumRange(lst, 1, Len(lst))

\* the value of ret after a call
Returned(op, args, value) == [op |-> op, args |-> args, value |-> value]
NoCall == Returned("none", <<>>, NoneVal)

----------------------------------------------------------------------------
(* Persistence: open(file, 'w') + json.dump inside try/except *)

FileOf(store) == [state |-> "ok", content |-> store]
MissingFile == [state |-> "missing", content |-> EmptyDict]
CorruptFile == [state |-> "corrupt", content |-> EmptyDict]

\* what open(file, 'w') and json.dump can meet: a healthy disk, a file that
\* cannot be opened for writing, a write that fails half way
DiskStates == {"ok", "unwritable", "full"}

\* The file after save: written whole on a healthy disk; left alone when
\* open() raises; truncated and unparseable when the write itself raises.
SavedFile(old, store) ==
    CASE disk = "ok"         -> FileOf(store)
      [] disk = "unwritable" -> old
      [] disk = "full"       -> CorruptFile

\* a load that falls back on a dict with one empty list
LoadFile_placeholder_on_error(file) ==
    IF file.state = "ok" THEN file.content ELSE [k \in {"B"} |-> <<>>]

\* load_*: the parsed file, {} when it is missing or json.load raises
LoadFile(file) == IF file.state = "ok" THEN file.content ELSE EmptyDict

----------------------------------------------------------------------------
(* HistoricalAnalyzer (utils/historical_analyzer.py) *)

\* A Python dict iterates in insertion order: the history is the pair of its
\* keys in insertion order and its items.
EmptyHistory == [keys |-> <<>>, items |-> EmptyDict]

Event(type, ts, data) == [type |-> type, timestamp |-> ts, data |-> data]

\* (job_id, event_type, timestamp, data) the callers pass in
EventInputs ==
    { <<"job0", "queued", IntVal(0), [user_id |-> "u1"]>>,
      <<"job0", "running", NoneVal, NoneVal>>,
      <<"job0", "status_change", NoneVal, [status |-> "COMPLETED", user_id |-> "u1"]>>,
      <<"job1", "backend_assigned", IntVal(1), [backend |-> "A"]>>,
      <<"job1", "status_change", NoneVal, [status |-> "RUNNING", user_id |-> "u2"]>>,
      <<"job1", "submitted_estimator", NoneVal, [backend |-> "A"]>> }

Jobs == {c[1] : c \in EventInputs}

\* job ids and user filters the readers pass in
TimelineQueries == Jobs \cup {"job9"}
AnalyticsQueries == {NoneVal, [id |-> "u1"], [id |-> "u2"]}

\* job_history.json as an earlier run of the program can have left it
StartedJob ==
    << Event("queued", -8, [user_id |-> "u1"]),
       Event("backend_assigned", -7, [backend |-> "A"]),
       Event("running", -4, EmptyDict),
       Event("status_change", -2, [status |-> "RUNNING", user_id |-> "u1"]) >>

InitialHistoryFiles ==
    { MissingFile, CorruptFile,
      FileOf([keys |-> <<"job0">>, items |-> [j \in {"job0"} |-> StartedJob]]) }

\* lines 15-23
load_history(file) == IF file.state = "ok" THEN file.content ELSE EmptyHistory

\* lines 38-42: timestamp or datetime.now(), data or {}
NewEvent(event_type, timestamp, data, now) ==
    Event(event_type,
          IF timestamp = NoneVal THEN now ELSE timestamp.value,
          IF data = NoneVal THEN EmptyDict ELSE data)

\* a recording that starts the job's list afresh on every call
RecordedEvent_fresh_list(history, job_id, event) ==
    [keys |-> IF job_id \in DOMAIN history.items THEN history.keys
              ELSE Append(history.keys, job_id),
     items |-> DictSet(history.items, job_id, <<event>>)]

\* a recording that skips an event equal to the job's latest one
RecordedEvent_unique(history, job_id, event) ==
    LET events == Get(history.items, job_id, <<>>)
    IN  IF events # <<>> /\ events[Len(events)] = event
        THEN history
        ELSE IF job_id \notin DOMAIN history.items
             THEN [keys |-> Append(history.keys, job_id),
                   items |-> DictSet(history.items, job_id, <<event>>)]
             ELSE [history EXCEPT !.items[job_id] = Append(@, event)]

\* lines 35-44: the history after record_job_event, before it is saved
RecordedEvent(history, job_id, event) ==
    LET h1 == IF job_id \notin DOMAIN history.items
              THEN [keys |-> Append(history.keys, job_id),
                    items |-> DictSet(history.items, job_id, <<>>)]
              ELSE history
    IN  [h1 EXCEPT !.items[job_id] = Append(@, event)]

\* lines 47-49
get_job_timeline(history, job_id) == Get(history.items, job_id, <<>>)

EventsOfType(events, type) == SelectSeq(events, LAMBDA e : e.type = type)

\* lines 68-71: a job takes part unless a user filter is given and none of
\* its events carries that user
TakesPart(events, user_id) ==
    \/ user_id = NoneVal
    \/ \E i \in 1..Len(events) :
          Get(Get(events[i], "data", EmptyDict), "user_id", "") = user_id.id

\* lines 74-76: the status of the last status_change event ("" when none)
LatestStatus(events) ==
    LET status_events == EventsOfType(events, "status_change")
    IN  IF status_events = <<>> THEN ""
        ELSE Get(status_events[Len(status_events)].data, "status", "unknown")

\* lines 83-85: the backend of the first backend_assigned event ("" when none)
AssignedBackend(events) ==
    LET backend_events == EventsOfType(events, "backend_assigned")
    IN  IF backend_events = <<>> THEN ""
        ELSE Get(backend_events[1].data, "backend", "unknown")

\* lines 89-95: ticks between the first queued and the first running event
QueueTicks(events) ==
    LET queue_events == EventsOfType(events, "queued")
        start_events == EventsOfType(events, "running")
    IN  IF queue_events # <<>> /\ start_events # <<>>
        THEN start_events[1].timestamp - queue_events[1].timestamp
        ELSE 0

\* d[k] = d.get(k, 0) + 1 for every job, k = keys[job], that has a key
CountBy(keys) ==
    [k \in {keys[j] : j \in DOMAIN keys} \ {""} |->
        Cardinality({j \in DOMAIN keys : keys[j] = k})]

\* list.sort(key = timestamp, reverse = True): stable, latest first
RECURSIVE SortedByTimestampDesc(_)
SortedByTimestampDesc(lst) ==
    IF lst = <<>> THEN <<>>
    ELSE LET rest == SortedByTimestampDesc(SubSeq(lst, 1, Len(lst) - 1))
             x == lst[Len(lst)]
             \* x goes after every entry that is not older than x
             n == Cardinality({i \in 1..Len(rest) : rest[i].timestamp >= x.timestamp})
         IN  SubSeq(rest, 1, n) \o <<x>> \o SubSeq(rest, n + 1, Len(rest))

\* lines 51-114
get_analytics(history, user_id) ==
    LET jobs == {j \in DOMAIN history.items : TakesPart(history.items[j], user_id)}
        listed == SelectSeq(history.keys,
                            LAMBDA j : j \in jobs /\ history.items[j] # <<>>)
        completed_jobs ==
            Cardinality({j \in jobs : LatestStatus(history.items[j]) = "COMPLETED"})
        activity == [i \in 1..Len(listed) |->
            LET events == history.items[listed[i]]
            IN  [job_id |-> listed[i],
                 last_event |-> events[Len(events)].type,
                 timestamp |-> events[Len(events)].timestamp]]
    IN  IF completed_jobs > 0
        THEN \* line 108 reads the undefined name completed_jops
             Raised("NameError")
        ELSE OkVal(
             [total_jobs |-> Cardinality(DOMAIN history.items),
              jobs_by_status |-> CountBy([j \in jobs |-> LatestStatus(history.items[j])]),
              jobs_by_backend |-> CountBy([j \in jobs |-> AssignedBackend(history.items[j])]),
              average_queue_time |-> 0,
              success_rate |-> 0,
              recent_activity |-> FirstN(SortedByTimestampDesc(activity), 10)])

\* a recording that is undone when the file cannot be written
Call_record_job_event_undone_on_failure(job_id, event_type, timestamp, data) ==
    LET event == NewEvent(event_type, timestamp, data, clock)
        after == IF disk = "ok" THEN RecordedEvent(job_history, job_id, event)
                                ELSE job_history
    IN  /\ clock < MaxEvents
        /\ clock' = clock + 1
        /\ job_history' = after
        /\ job_history_file' = SavedFile(job_history_file, after)
        /\ events_recorded' = [events_recorded EXCEPT ![job_id] = Append(@, event)]
        /\ ret' = Returned("record_job_event",
                           <<job_id, event_type, timestamp, data>>, NoneVal)
        /\ UNCHANGED <<app_vars, thread_vars, backend_status_cache, disk, predictor_vars, notification_vars>>

\* record_job_event(job_id, event_type, timestamp, data)
Call_record_job_event(job_id, event_type, timestamp, data) ==
    LET event == NewEvent(event_type, timestamp, data, clock)
        after == RecordedEvent(job_history, job_id, event)
    IN  /\ clock < MaxEvents
        /\ clock' = clock + 1
        /\ job_history' = after
        /\ job_history_file' = SavedFile(job_history_file, after)
        /\ events_recorded' = [events_recorded EXCEPT ![job_id] = Append(@, event)]
        /\ ret' = Returned("record_job_event",
                           <<job_id, event_type, timestamp, data>>, NoneVal)
        /\ UNCHANGED <<app_vars, thread_vars, backend_status_cache, disk, predictor_vars, notification_vars>>

\* a read that leaves an empty list behind for a job it does not know
Call_get_job_timeline_setdefault(job_id) ==
    LET after == IF job_id \in DOMAIN job_history.items
                 THEN job_history
                 ELSE [keys |-> Append(job_history.keys, job_id),
                       items |-> DictSet(job_history.items, job_id, <<>>)]
    IN  /\ job_history' = after
        /\ ret' = Returned("get_job_timeline", <<job_id>>,
                           get_job_timeline(job_history, job_id))
        /\ UNCHANGED <<app_vars, thread_vars, backend_status_cache, clock, disk,
                       job_history_file, events_recorded, predictor_vars,
                       notification_vars>>

\* get_job_timeline(job_id)
Call_get_job_timeline(job_id) ==
    /\ ret' = Returned("get_job_timeline", <<job_id>>,
                       get_job_timeline(job_history, job_id))
    /\ UNCHANGED <<app_vars, thread_vars, backend_status_cache, clock, disk, history_vars, predictor_vars, notification_vars>>

\* get_analytics(user_id)
Call_get_analytics(user_id) ==
    /\ ret' = Returned("get_analytics", <<user_id>>,
                       get_analytics(job_history, user_id))
    /\ UNCHANGED <<app_vars, thread_vars, backend_status_cache, clock, disk, history_vars, predictor_vars, notification_vars>>

RecordJobEvent ==
    \E e \in EventInputs : Call_record_job_event(e[1], e[2], e[3], e[4])

GetJobTimeline ==
    \E j \in TimelineQueries : Call_get_job_timeline(j)

GetAnalytics ==
    \E u \in AnalyticsQueries : Call_get_analytics(u)

\* HistoricalAnalyzer.__init__: history = load_history()
HistoricalAnalyzerInit(file) ==
    /\ job_history_file = file
    /\ job_history = load_history(file)
    /\ events_recorded = [j \in Jobs |-> get_job_timeline(job_history, j)]

----------------------------------------------------------------------------
(* NotificationManager (utils/notification_manager.py) *)

Users == {"u1", "u2"}

JobInfo == [job_id |-> "j1", backend |-> "A", status |-> "SUBMITTED"]

\* (user_id, title, message, job_info) the callers pass in
NotificationInputs ==
    { <<"u1", "t1", "m1", NoneVal>>,
      <<"u1", "t2", "m2", JobInfo>>,
      <<"u2", "t3", "m3", EmptyDict>> }

\* notification_index values the callers pass in (None: mark all)
NotificationIndexes ==
    {NoneVal} \cup {IntVal(i) : i \in {-1, 0, 1, MaxNotifications}}

Webhooks == {"", "https://hooks.example/T000"}

\* what requests.post can do: answer 200, answer something else, raise
PostOutcomes == {"200", "500", "raised"}

Notification(user_id, title, message, ts, job_info, read) ==
    [user_id |-> user_id, title |-> title, message |-> message,
     timestamp |-> ts, job_info |-> job_info, read |-> read]

\* notifications.json as an earlier run of the program can have left it: one
\* entry short of the cap for "u1", the two oldest entries already read
NearlyFullLog ==
    [i \in 1..(MaxNotifications - 1) |->
        Notification("u1", "t0", "m0", i - MaxNotifications, NoneVal, i <= 2)]

InitialNotificationFiles ==
    { MissingFile, CorruptFile, FileOf([u \in {"u1"} |-> NearlyFullLog]) }

\* bool(job_info): None and {} are false
Truthy(job_info) == job_info # NoneVal /\ job_info # EmptyDict

\* bool(slack_webhook): "" is false
Configured(webhook) == webhook # ""

\* a truncation that drops the newest entries instead of the oldest
TruncateNotifications_keeps_oldest(lst) ==
    IF Len(lst) > MaxNotifications THEN SubSeq(lst, 1, MaxNotifications) ELSE lst

\* a truncation that is one entry too generous
TruncateNotifications_off_by_one(lst) ==
    IF Len(lst) > MaxNotifications + 1 THEN LastN(lst, MaxNotifications + 1) ELSE lst

\* lines 53-55: keep only the last 100 notifications
TruncateNotifications(lst) ==
    IF Len(lst) > MaxNotifications THEN LastN(lst, MaxNotifications) ELSE lst

\* lines 47-55: the store after send_notification, before it is saved
StoredNotification(store, user_id, notification) ==
    LET s1 == IF user_id \notin DOMAIN store
              THEN DictSet(store, user_id, <<>>)
              ELSE store
        s2 == DictSet(s1, user_id, Append(s1[user_id], notification))
    IN  DictSet(s2, user_id, TruncateNotifications(s2[user_id]))

\* lines 68-103: the payload posted to the webhook
SlackPayload(title, message, job_info) ==
    [text |-> title, header |-> title, section |-> message,
     job_id |-> Get(job_info, "job_id", "Unknown"),
     backend |-> Get(job_info, "backend", "Unknown"),
     status |-> Get(job_info, "status", "Unknown")]

\* a delivery that is attempted a second time when the first attempt fails
SlackPostsAfter_retry_on_failure(posts, webhook, title, message, job_info, outcome) ==
    LET post == [url |-> webhook, outcome |-> outcome,
                 payload |-> SlackPayload(title, message, job_info)]
    IN  IF Configured(webhook) /\ Truthy(job_info)
        THEN IF outcome = "200" THEN Append(posts, post)
                                ELSE Append(Append(posts, post), post)
        ELSE posts

\* lines 59-61 and 65-110: one post when a webhook is configured and job_info
\* is given; whatever the post does is logged and swallowed
SlackPostsAfter(posts, webhook, title, message, job_info, outcome) ==
    IF Configured(webhook) /\ Truthy(job_info)
    THEN Append(posts, [url |-> webhook, outcome |-> outcome,
                        payload |-> SlackPayload(title, message, job_info)])
    ELSE posts

\* a bulk marking that stops after the first entry
MarkedAsRead_first_only(store, user_id, notification_index) ==
    IF notification_index # NoneVal
    THEN LET i == notification_index.value
         IN  IF 0 <= i /\ i < Len(store[user_id])
             THEN [store EXCEPT ![user_id][i + 1].read = TRUE]
             ELSE store
    ELSE [store EXCEPT ![user_id] =
             [i \in 1..Len(@) |-> IF i = 1 THEN [@[i] EXCEPT !.read = TRUE] ELSE @[i]]]

\* a marking that flips the flag of the entry it addresses
MarkedAsRead_toggles(store, user_id, notification_index) ==
    IF notification_index # NoneVal
    THEN LET i == notification_index.value
         IN  IF 0 <= i /\ i < Len(store[user_id])
             THEN [store EXCEPT ![user_id][i + 1].read = ~@]
             ELSE store
    ELSE [store EXCEPT ![user_id] =
             [i \in 1..Len(@) |-> [@[i] EXCEPT !.read = TRUE]]]

\* a marking that counts positions from one
MarkedAsRead_one_based(store, user_id, notification_index) ==
    IF notification_index # NoneVal
    THEN LET i == notification_index.value
         IN  IF 1 <= i /\ i <= Len(store[user_id])
             THEN [store EXCEPT ![user_id][i].read = TRUE]
             ELSE store
    ELSE [store EXCEPT ![user_id] =
             [i \in 1..Len(@) |-> [@[i] EXCEPT !.read = TRUE]]]

\* a marking that lets a negative index count from the end of the list
MarkedAsRead_negative_wraps(store, user_id, notification_index) ==
    IF notification_index # NoneVal
    THEN LET i == notification_index.value
             n == Len(store[user_id])
         IN  IF -n <= i /\ i < n
             THEN [store EXCEPT ![user_id][IF i < 0 THEN n + i + 1 ELSE i + 1].read = TRUE]
             ELSE store
    ELSE [store EXCEPT ![user_id] =
             [i \in 1..Len(@) |-> [@[i] EXCEPT !.read = TRUE]]]

\* lines 121-131: the store after mark_as_read, before it is saved
MarkedAsRead(store, user_id, notification_index) ==
    IF notification_index # NoneVal
    THEN LET i == notification_index.value
         IN  IF 0 <= i /\ i < Len(store[user_id])
             THEN [store EXCEPT ![user_id][i + 1].read = TRUE]
             ELSE store
    ELSE [store EXCEPT ![user_id] =
             [i \in 1..Len(@) |-> [@[i] EXCEPT !.read = TRUE]]]

IsUnread(n) == ~Get(n, "read", FALSE)

\* a read that returns the whole log whatever unread_only says
get_user_notifications_ignores_flag(store, user_id, unread_only) ==
    Get(store, user_id, <<>>)

\* lines 112-119
get_user_notifications(store, user_id, unread_only) ==
    LET user_notifications == Get(store, user_id, <<>>)
    IN  IF unread_only THEN SelectSeq(user_notifications, IsUnread)
                       ELSE user_notifications

\* a send that withdraws the notification when the delivery fails
Call_send_notification_rollback(user_id, title, message, job_info, outcome) ==
    LET notification == Notification(user_id, title, message, clock, job_info, FALSE)
        posts == SlackPostsAfter(slack_posts, slack_webhook,
                                 title, message, job_info, outcome)
        after == IF posts # slack_posts /\ outcome # "200"
                 THEN notifications
                 ELSE StoredNotification(notifications, user_id, notification)
    IN  /\ clock < MaxClock
        /\ clock' = clock + 1
        /\ notifications' = after
        /\ notifications_file' = SavedFile(notifications_file, after)
        /\ slack_posts' = posts
        /\ notifications_sent' =
              [notifications_sent EXCEPT ![user_id] = Append(@, notification)]
        /\ ret' = Returned("send_notification",
                           <<user_id, title, message, job_info>>, NoneVal)
        /\ UNCHANGED <<app_vars, thread_vars, backend_status_cache, disk, slack_webhook, history_vars, predictor_vars>>

\* send_notification(user_id, title, message, job_info)
Call_send_notification(user_id, title, message, job_info, outcome) ==
    LET notification == Notification(user_id, title, message, clock, job_info, FALSE)
        after == StoredNotification(notifications, user_id, notification)
    IN  /\ clock < MaxClock
        /\ clock' = clock + 1
        /\ notifications' = after
        /\ notifications_file' = SavedFile(notifications_file, after)
        /\ slack_posts' = SlackPostsAfter(slack_posts, slack_webhook,
                                          title, message, job_info, outcome)
        /\ notifications_sent' =
              [notifications_sent EXCEPT ![user_id] = Append(@, notification)]
        /\ ret' = Returned("send_notification",
                           <<user_id, title, message, job_info>>, NoneVal)
        /\ UNCHANGED <<app_vars, thread_vars, backend_status_cache, disk, slack_webhook, history_vars, predictor_vars>>

\* mark_as_read(user_id, notification_index)
Call_mark_as_read(user_id, notification_index) ==
    /\ IF user_id \in DOMAIN notifications
       THEN LET after == MarkedAsRead(notifications, user_id, notification_index)
            IN  /\ notifications' = after
                /\ notifications_file' = SavedFile(notifications_file, after)
       ELSE UNCHANGED <<notifications, notifications_file>>
    /\ ret' = Returned("mark_as_read", <<user_id, notification_index>>, NoneVal)
    /\ UNCHANGED <<app_vars, thread_vars, backend_status_cache, clock, disk, notifications_sent, slack_webhook, slack_posts,
                   history_vars, predictor_vars>>

\* get_user_notifications(user_id, unread_only)
Call_get_user_notifications(user_id, unread_only) ==
    /\ ret' = Returned("get_user_notifications", <<user_id, unread_only>>,
                       get_user_notifications(notifications, user_id, unread_only))
    /\ UNCHANGED <<app_vars, thread_vars, backend_status_cache, clock, disk, history_vars, notification_vars, predictor_vars>>

SendNotification ==
    \E n \in NotificationInputs, outcome \in PostOutcomes :
        /\ (Configured(slack_webhook) /\ Truthy(n[4])) \/ outcome = "200"
        /\ Call_send_notification(n[1], n[2], n[3], n[4], outcome)

MarkAsRead ==
    \E u \in Users, i \in NotificationIndexes : Call_mark_as_read(u, i)

GetUserNotifications ==
    \E u \in Users, unread_only \in BOOLEAN : Call_get_user_notifications(u, unread_only)

\* NotificationManager.__init__: notifications = load_notifications()
NotificationManagerInit(file, webhook) ==
    /\ notifications_file = file
    /\ notifications = LoadFile(file)
    /\ notifications_sent = [u \in Users |->
          IF u \in DOMAIN notifications
          THEN [i \in 1..Len(notifications[u]) |->
                   [notifications[u][i] EXCEPT !.read = FALSE]]
          ELSE <<>>]
    /\ slack_webhook = webhook
    /\ slack_posts = <<>>

----------------------------------------------------------------------------
(* BackendRecommender (utils/backend_recommender.py) *)

\* A score is a number of points; qubits / 5 makes it a multiple of 1/5, so
\* it is held as the number num of 1/QubitsPerPoint points.
Points(num) == [kind |-> "points", num |-> num, den |-> QubitsPerPoint]
WholePoints(n) == n * QubitsPerPoint

BackendInfo(operational, pending_jobs, qubits, simulator) ==
    [operational |-> operational, pending_jobs |-> pending_jobs,
     qubits |-> qubits, service_type |-> "public", simulator |-> simulator]

\* the dict d without the key k
Without(d, k) == [x \in (DOMAIN d) \ {k} |-> d[x]]

\* a score whose qubit bonus is qubits // 5
calculate_backend_score_floor_division(backend_name, backend_info) ==
    LET queue_length == Get(backend_info, "pending_jobs", IntVal(0))
        qubits == Get(backend_info, "qubits", IntVal(0))
    IN  IF queue_length.kind # "int"
        THEN Raised("TypeError")
        ELSE LET s0 == WholePoints(100)
                 s1 == s0 - WholePoints(Min(queue_length.value * 2, 50))
                 s2 == IF Get(backend_info, "simulator", FALSE)
                       THEN s1 + WholePoints(10) ELSE s1
                 s3 == IF qubits.kind = "int"
                       THEN s2 + WholePoints(Min(qubits.value \div QubitsPerPoint, 20))
                       ELSE s2
             IN  Points(Max(0, Min(s3, WholePoints(100))))

\* a score that drops the queue penalty once it would pass the cap
calculate_backend_score_penalty_dropped(backend_name, backend_info) ==
    LET queue_length == Get(backend_info, "pending_jobs", IntVal(0))
        qubits == Get(backend_info, "qubits", IntVal(0))
    IN  IF queue_length.kind # "int"
        THEN Raised("TypeError")
        ELSE LET s0 == WholePoints(100)
                 s1 == IF queue_length.value * 2 <= 50
                       THEN s0 - WholePoints(queue_length.value * 2) ELSE s0
                 s2 == IF Get(backend_info, "simulator", FALSE)
                       THEN s1 + WholePoints(10) ELSE s1
                 s3 == IF qubits.kind = "int"
                       THEN s2 + Min(qubits.value, WholePoints(20)) ELSE s2
             IN  Points(Max(0, Min(s3, WholePoints(100))))

\* lines 34-52
calculate_backend_score(backend_name, backend_info) ==
    LET queue_length == Get(backend_info, "pending_jobs", IntVal(0))
        qubits == Get(backend_info, "qubits", IntVal(0))
    IN  IF queue_length.kind # "int"
        THEN \* min(queue_length * 2, 50) of a str or None
             Raised("TypeError")
        ELSE LET s0 == WholePoints(100)
                 s1 == s0 - WholePoints(Min(queue_length.value * 2, 50))
                 s2 == IF Get(backend_info, "simulator", FALSE)
                       THEN s1 + WholePoints(10) ELSE s1
                 s3 == IF qubits.kind = "int"
                       THEN s2 + Min(qubits.value, WholePoints(20)) ELSE s2
             IN  Points(Max(0, Min(s3, WholePoints(100))))

\* lines 54-73: the reasons that are joined with ", "
get_recommendation_reason(backend_name, backend_info, score) ==
    LET queue_length == Get(backend_info, "pending_jobs", IntVal(0))
        qubits == Get(backend_info, "qubits", IntVal(0))
    IN  IF queue_length.kind # "int"
        THEN Raised("TypeError")
        ELSE (IF queue_length.value = 0 THEN <<[text |-> "No jobs in queue"]>>
              ELSE IF queue_length.value < 5 THEN <<[text |-> "Short queue"]>>
              ELSE <<[text |-> "jobs in queue", count |-> queue_length.value]>>)
             \o (IF Get(backend_info, "simulator", FALSE)
                 THEN <<[text |-> "Simulator (good for testing)"]>> ELSE <<>>)
             \o (IF qubits.kind = "int" /\ qubits.value > 10
                 THEN <<[text |-> "High qubit count"]>> ELSE <<>>)

\* lines 20-27
Recommendation(backend_name, backend_info) ==
    LET score == calculate_backend_score(backend_name, backend_info)
    IN  [name |-> backend_name,
         service_type |-> Get(backend_info, "service_type", "unknown"),
         qubits |-> Get(backend_info, "qubits", StrVal("Unknown")),
         queue_length |-> Get(backend_info, "pending_jobs", IntVal(0)),
         score |-> score,
         recommendation_reason |->
             get_recommendation_reason(backend_name, backend_info, score)]

\* a sort that puts a later element before the earlier ones of equal score
RECURSIVE SortedByScoreDesc_later_first(_)
SortedByScoreDesc_later_first(lst) ==
    IF lst = <<>> THEN <<>>
    ELSE LET rest == SortedByScoreDesc_later_first(SubSeq(lst, 1, Len(lst) - 1))
             x == lst[Len(lst)]
             n == Cardinality({i \in 1..Len(rest) : rest[i].score.num > x.score.num})
         IN  SubSeq(rest, 1, n) \o <<x>> \o SubSeq(rest, n + 1, Len(rest))

\* list.sort(key = score, reverse = True): stable, highest first
RECURSIVE SortedByScoreDesc(_)
SortedByScoreDesc(lst) ==
    IF lst = <<>> THEN <<>>
    ELSE LET rest == SortedByScoreDesc(SubSeq(lst, 1, Len(lst) - 1))
             x == lst[Len(lst)]
             n == Cardinality({i \in 1..Len(rest) : rest[i].score.num >= x.score.num})
         IN  SubSeq(rest, 1, n) \o <<x>> \o SubSeq(rest, n + 1, Len(rest))

\* recommendations cut to three before they are sorted
get_recommendations_cut_first(user_id, cache) ==
    LET candidates == SelectSeq(cache, LAMBDA b : Get(b.info, "operational", FALSE))
        recommendations ==
            [i \in 1..Len(candidates) |->
                Recommendation(candidates[i].name, candidates[i].info)]
    IN  IF \E i \in 1..Len(recommendations) :
              recommendations[i].score = Raised("TypeError")
        THEN Raised("TypeError")
        ELSE OkVal(SortedByScoreDesc(FirstN(recommendations, 3)))

\* lines 10-32
get_recommendations(user_id, cache) ==
    LET candidates == SelectSeq(cache, LAMBDA b : Get(b.info, "operational", FALSE))
        recommendations ==
            [i \in 1..Len(candidates) |->
                Recommendation(candidates[i].name, candidates[i].info)]
    IN  IF \E i \in 1..Len(recommendations) :
              recommendations[i].score = Raised("TypeError")
        THEN Raised("TypeError")
        ELSE OkVal(FirstN(SortedByScoreDesc(recommendations), 3))

\* calculate_backend_score(backend_name, backend_info)
Call_calculate_backend_score(backend_name, backend_info) ==
    /\ ret' = Returned("calculate_backend_score", <<backend_name, backend_info>>,
                       calculate_backend_score(backend_name, backend_info))
    /\ UNCHANGED <<app_vars, thread_vars, backend_status_cache, clock, disk, stores>>

\* a call that drops the targets it skips from the caller's snapshot
Call_get_recommendations_prunes_snapshot(user_id) ==
    /\ ret' = Returned("get_recommendations", <<user_id>>,
                       get_recommendations(user_id, backend_status_cache))
    /\ backend_status_cache' =
          SelectSeq(backend_status_cache, LAMBDA b : Get(b.info, "operational", FALSE))
    /\ UNCHANGED <<app_vars, thread_vars, clock, disk, stores>>

\* get_recommendations(user_id, backend_status_cache)
Call_get_recommendations(user_id) ==
    /\ ret' = Returned("get_recommendations", <<user_id>>,
                       get_recommendations(user_id, backend_status_cache))
    /\ UNCHANGED <<app_vars, thread_vars, backend_status_cache, clock, disk, stores>>

CalculateBackendScore ==
    \E i \in 1..Len(backend_status_cache) :
        Call_calculate_backend_score(backend_status_cache[i].name,
                                     backend_status_cache[i].info)

GetRecommendations ==
    \E u \in {"u1"} : Call_get_recommendations(u)

----------------------------------------------------------------------------
(* QueuePredictor (utils/queue_predictor.py) *)

Targets == {"A", "B"}

\* (job_id, backend_name, queue_time, run_time) the callers pass in
CompletionInputs ==
    { <<"j1", "A", 30, 10>>,
      <<"j2", "A", 90, 20>>,
      <<"j3", "A", 59, 0>>,
      <<"j4", "A", 3599, 15>>,
      <<"j5", "A", 3600, -1>>,
      <<"j6", "B", 0, 0>>,
      <<"j7", "B", 60, 5>> }

\* current_queue_length values the callers pass in
QueueLengths == {-1, 0, 1, 2}

Sample(ts, job_id, queue_time, run_time) ==
    [timestamp |-> ts, job_id |-> job_id,
     queue_time |-> queue_time, run_time |-> run_time]

\* queue_history.json as an earlier run of the program can have left it:
\* one sample short of the cap for "A", the oldest sample the only positive one
NearlyFullSamples ==
    [i \in 1..(MaxSamples - 1) |->
        IF i = 1 THEN Sample(i - MaxSamples, "j0", 100, 50)
                 ELSE Sample(i - MaxSamples, "j0", 0, 0)]

InitialQueueFiles ==
    { MissingFile, CorruptFile,
      FileOf(EmptyDict),
      FileOf([t \in {"A"} |-> NearlyFullSamples]) }

\* a truncation that keeps the oldest entries instead of the newest
TruncateSamples_keep_oldest(lst) ==
    IF Len(lst) > MaxSamples THEN SubSeq(lst, 1, MaxSamples) ELSE lst

\* lines 46-48: keep only the last 1000 entries
TruncateSamples(lst) ==
    IF Len(lst) > MaxSamples THEN LastN(lst, MaxSamples) ELSE lst

\* a record_job_completion that would store only the samples it can average
RecordedCompletion_skips_nonpositive(history, backend_name, sample) ==
    LET h1 == IF backend_name \notin DOMAIN history
              THEN DictSet(history, backend_name, <<>>)
              ELSE history
        h2 == IF sample.queue_time > 0 /\ sample.run_time > 0
              THEN DictSet(h1, backend_name, Append(h1[backend_name], sample))
              ELSE h1
    IN  DictSet(h2, backend_name, TruncateSamples(h2[backend_name]))

\* lines 36-48: the store after record_job_completion, before it is saved
RecordedCompletion(history, backend_name, sample) ==
    LET h1 == IF backend_name \notin DOMAIN history
              THEN DictSet(history, backend_name, <<>>)
              ELSE history
        h2 == DictSet(h1, backend_name, Append(h1[backend_name], sample))
    IN  DictSet(h2, backend_name, TruncateSamples(h2[backend_name]))

\* [entry['run_time'] for entry in lst], [entry['queue_time'] for entry in lst]
RunTimes(lst) == [i \in 1..Len(lst) |-> lst[i].run_time]
QueueTimes(lst) == [i \in 1..Len(lst) |-> lst[i].queue_time]
IsPositiveRunTime(entry) == entry.run_time > 0
IsPositiveQueueTime(entry) == entry.queue_time > 0

TimeVal(seconds) == [kind |-> "time", seconds |-> seconds]

\* strftime("%Y-%m-%d %H:%M:%S") of now + timedelta(seconds = num / den):
\* the whole second the instant falls in
FormatInstant(now, num, den) ==
    TimeVal((now * den + TicksPerSecond * num) \div (TicksPerSecond * den))

\* an estimate that averages the queue times instead of the run times
estimate_start_time_queue_times(history, now, backend_name, current_queue_length) ==
    IF backend_name \notin DOMAIN history \/ history[backend_name] = <<>>
    THEN NoneVal
    ELSE LET times == QueueTimes(SelectSeq(history[backend_name], IsPositiveQueueTime))
         IN  IF times = <<>>
             THEN NoneVal
             ELSE LET num == current_queue_length * sum(times)
                      den == Len(times)
                  IN  IF num > 0 THEN FormatInstant(now, num, den) ELSE NoneVal

\* an estimate that answers "now" for an empty queue (estimated_wait >= 0)
estimate_start_time_zero_wait(history, now, backend_name, current_queue_length) ==
    IF backend_name \notin DOMAIN history \/ history[backend_name] = <<>>
    THEN NoneVal
    ELSE LET run_times == RunTimes(SelectSeq(history[backend_name], IsPositiveRunTime))
         IN  IF run_times = <<>>
             THEN NoneVal
             ELSE LET num == current_queue_length * sum(run_times)
                      den == Len(run_times)
                  IN  IF num >= 0 THEN FormatInstant(now, num, den) ELSE NoneVal

\* lines 52-70
estimate_start_time(history, now, backend_name, current_queue_length) ==
    IF backend_name \notin DOMAIN history \/ history[backend_name] = <<>>
    THEN NoneVal
    ELSE LET run_times == RunTimes(SelectSeq(history[backend_name], IsPositiveRunTime))
         IN  IF run_times = <<>>
             THEN NoneVal
             ELSE \* avg_run_time = sum / len, estimated_wait = q * avg_run_time
                  LET num == current_queue_length * sum(run_times)
                      den == Len(run_times)
                  IN  IF num > 0 THEN FormatInstant(now, num, den) ELSE NoneVal

Unknown == [kind |-> "Unknown"]
Text(value, unit) == [kind |-> "text", value |-> value, unit |-> unit]

\* thresholds taken inclusively (avg <= 60, avg <= 3600)
FormatWait_inclusive(total, count) ==
    IF total <= 60 * count THEN Text(total \div count, "seconds")
    ELSE IF total <= 3600 * count THEN Text(total \div (60 * count), "minutes")
    ELSE Text(total \div (3600 * count), "hours")

\* lines 84-89: f"{int(avg)} seconds" and so on, avg = total / count
FormatWait(total, count) ==
    IF total < 60 * count THEN Text(total \div count, "seconds")
    ELSE IF total < 3600 * count THEN Text(total \div (60 * count), "minutes")
    ELSE Text(total \div (3600 * count), "hours")

\* lines 72-89
estimate_average_wait(history, backend_name) ==
    IF backend_name \notin DOMAIN history \/ history[backend_name] = <<>>
    THEN Unknown
    ELSE LET queue_times == QueueTimes(SelectSeq(history[backend_name], IsPositiveQueueTime))
         IN  IF queue_times = <<>>
             THEN Unknown
             ELSE FormatWait(sum(queue_times), Len(queue_times))

\* record_job_completion(job_id, backend_name, queue_time, run_time)
Call_record_job_completion(job_id, backend_name, queue_time, run_time) ==
    LET sample == Sample(clock, job_id, queue_time, run_time)
        after == RecordedCompletion(queue_history, backend_name, sample)
    IN  /\ clock < MaxClock
        /\ clock' = clock + 1
        /\ queue_history' = after
        /\ queue_history_file' = SavedFile(queue_history_file, after)
        /\ queue_recorded' =
              [queue_recorded EXCEPT ![backend_name] = Append(@, sample)]
        /\ ret' = Returned("record_job_completion",
                           <<job_id, backend_name, queue_time, run_time>>, NoneVal)
        /\ UNCHANGED <<app_vars, thread_vars, backend_status_cache, disk, history_vars, notification_vars>>

Call_estimate_start_time(job_id, backend_name, current_queue_length) ==
    /\ ret' = Returned("estimate_start_time",
                       <<job_id, backend_name, current_queue_length>>,
                       estimate_start_time(queue_history, clock, backend_name,
                                           current_queue_length))
    /\ UNCHANGED <<app_vars, thread_vars, backend_status_cache, clock, disk, history_vars, predictor_vars, notification_vars>>

Call_estimate_average_wait(backend_name) ==
    /\ ret' = Returned("estimate_average_wait", <<backend_name>>,
                       estimate_average_wait(queue_history, backend_name))
    /\ UNCHANGED <<app_vars, thread_vars, backend_status_cache, clock, disk, history_vars, predictor_vars, notification_vars>>

RecordJobCompletion ==
    \E c \in CompletionInputs : Call_record_job_completion(c[1], c[2], c[3], c[4])

EstimateStartTime ==
    \E t \in Targets, q \in QueueLengths : Call_estimate_start_time("j1", t, q)

EstimateAverageWait ==
    \E t \in Targets : Call_estimate_average_wait(t)

\* QueuePredictor.__init__: history = load_history()
QueuePredictorInit(file) ==
    /\ queue_history_file = file
    /\ queue_history = LoadFile(file)
    /\ queue_recorded = [t \in Targets |->
          IF t \in DOMAIN queue_history THEN queue_history[t] ELSE <<>>]

----------------------------------------------------------------------------
(* Handlers running in threads (app.py)                                     *)
(*                                                                          *)
(* app.run of line 1348 serves every request in a thread of its own, and    *)
(* lines 585-587 start the background refresh thread. The stores created in *)
(* lines 65-72 are shared by all of them, and no handler takes a lock: a    *)
(* thread can be preempted between any two statements, and between the      *)
(* evaluation of an expression and the call made on its value.              *)

Threads == 1..NumThreads

\* A list object is known by the key it was stored under and by how many
\* lists the dict had held under that key when it was stored.
ListRef(key, version) == [key |-> key, version |-> version]
NoRef == ListRef("", 0)

\* the local variables of a thread: the arguments of the call, the dict it
\* has built (event, notification), the list object it has evaluated, and
\* the slice it has taken
IdleThread ==
    [pc |-> "idle", args |-> <<>>, item |-> NoneVal, lst |-> NoRef, tmp |-> <<>>]

NoThreads ==
    /\ threads = [t \in Threads |-> IdleThread]
    /\ list_version = [k \in Jobs \cup Users |-> 0]
    /\ orphans = EmptyDict

AllReturned == \A t \in Threads : threads[t].pc = "idle"

At(t, pc) == threads[t].pc = pc
Goto(t, pc) == [threads EXCEPT ![t].pc = pc]

\* the list object d[key] evaluates to
Load(key) == ListRef(key, list_version[key])

\* ref is the list object its dict holds now
IsCurrent(ref) == list_version[ref.key] = ref.version

Holders(ref) == {t \in Threads : threads[t].lst = ref}

\* d[key] = <new list>: the list d held under key, if any, lives on for the
\* threads that hold it
OrphansAfterStore(d, key) ==
    IF key \in DOMAIN d /\ Holders(Load(key)) # {}
    THEN DictSet(orphans, Load(key), d[key])
    ELSE orphans

\* thread t calls append(item) on an orphan and lets go of it
OrphansAfterAppend(t, ref, item) ==
    IF Holders(ref) = {t}
    THEN [r \in (DOMAIN orphans) \ {ref} |-> orphans[r]]
    ELSE [orphans EXCEPT ![ref] = Append(@, item)]

(* record_job_event, statement by statement (historical_analyzer.py) *)

Begin_record_job_event(t, job_id, event_type, timestamp, data) ==
    /\ At(t, "idle")
    /\ clock < MaxClock
    /\ clock' = clock + 1
    /\ threads' = [threads EXCEPT ![t] =
          [IdleThread EXCEPT !.pc = "record_job_event_35",
                             !.args = <<job_id, event_type, timestamp, data>>]]
    /\ UNCHANGED <<app_vars, backend_status_cache, disk, ret, stores, list_version, orphans>>

\* line 35: if job_id not in self.history
record_job_event_35(t) ==
    /\ At(t, "record_job_event_35")
    /\ threads' = Goto(t, IF threads[t].args[1] \notin DOMAIN job_history.items
                          THEN "record_job_event_36"
                          ELSE "record_job_event_38")
    /\ UNCHANGED <<app_vars, backend_status_cache, clock, disk, ret, stores, list_version, orphans>>

\* line 36: self.history[job_id] = []
record_job_event_36(t) ==
    LET job_id == threads[t].args[1]
    IN  /\ At(t, "record_job_event_36")
        /\ job_history' =
              [keys |-> IF job_id \in DOMAIN job_history.items
                        THEN job_history.keys
                        ELSE Append(job_history.keys, job_id),
               items |-> DictSet(job_history.items, job_id, <<>>)]
        /\ orphans' = OrphansAfterStore(job_history.items, job_id)
        /\ list_version' = [list_version EXCEPT ![job_id] = @ + 1]
        /\ threads' = Goto(t, "record_job_event_38")
        /\ UNCHANGED <<app_vars, backend_status_cache, clock, disk, ret, job_history_file,
                       events_recorded, predictor_vars, notification_vars>>

\* lines 38-42: event = {...}
record_job_event_38(t) ==
    LET args == threads[t].args
    IN  /\ At(t, "record_job_event_38")
        /\ threads' = [threads EXCEPT
              ![t].pc = "record_job_event_44",
              ![t].item = NewEvent(args[2], args[3], args[4], clock)]
        /\ UNCHANGED <<app_vars, backend_status_cache, clock, disk, ret, stores, list_version, orphans>>

\* line 44, self.history[job_id]: the list object to append to
record_job_event_44(t) ==
    /\ At(t, "record_job_event_44")
    /\ threads' = [threads EXCEPT ![t].pc = "record_job_event_44_append",
                                  ![t].lst = Load(threads[t].args[1])]
    /\ UNCHANGED <<app_vars, backend_status_cache, clock, disk, ret, stores, list_version, orphans>>

\* line 44, .append(event)
record_job_event_44_append(t) ==
    LET ref == threads[t].lst
        event == threads[t].item
    IN  /\ At(t, "record_job_event_44_append")
        /\ IF IsCurrent(ref)
           THEN /\ job_history' = [job_history EXCEPT !.items[ref.key] = Append(@, event)]
                /\ orphans' = orphans
           ELSE /\ job_history' = job_history
                /\ orphans' = OrphansAfterAppend(t, ref, event)
        /\ threads' = [threads EXCEPT ![t].pc = "record_job_event_45",
                                      ![t].lst = NoRef]
        /\ UNCHANGED <<app_vars, backend_status_cache, clock, disk, ret, list_version,
                       job_history_file, events_recorded,
                       predictor_vars, notification_vars>>

\* line 45: self.save_history(), and the return to the caller
record_job_event_45(t) ==
    LET args == threads[t].args
    IN  /\ At(t, "record_job_event_45")
        /\ job_history_file' = SavedFile(job_history_file, job_history)
        /\ events_recorded' =
              [events_recorded EXCEPT ![args[1]] = Append(@, threads[t].item)]
        /\ ret' = Returned("record_job_event", args, NoneVal)
        /\ threads' = [threads EXCEPT ![t] = IdleThread]
        /\ UNCHANGED <<app_vars, backend_status_cache, clock, disk, job_history, list_version,
                       orphans, predictor_vars, notification_vars>>

(* GET /api/jobs/<job_id>/timeline, statement by statement (app.py) *)

\* what the list object thread t holds contains now
HeldList(t) ==
    LET ref == threads[t].lst
    IN  IF ref = NoRef THEN threads[t].tmp
        ELSE IF IsCurrent(ref) THEN job_history.items[ref.key]
        ELSE orphans[ref]

\* line 1195: timeline = historical_analyzer.get_job_timeline(job_id); what
\* self.history.get(job_id, []) evaluates to is the stored list object, or a
\* new empty list; tmp keeps what the list held at that moment
api_job_timeline_1195(t, job_id) ==
    /\ At(t, "idle")
    /\ threads' = [threads EXCEPT ![t] =
          [IdleThread EXCEPT
              !.pc = "api_job_timeline_1196",
              !.args = <<job_id>>,
              !.lst = IF job_id \in DOMAIN job_history.items
                      THEN Load(job_id) ELSE NoRef,
              !.tmp = get_job_timeline(job_history, job_id)]]
    /\ UNCHANGED <<app_vars, backend_status_cache, clock, disk, ret, stores,
                   list_version, orphans>>

\* line 1196: jsonify reads the list and the handler answers
api_job_timeline_1196(t) ==
    LET ref == threads[t].lst
    IN  /\ At(t, "api_job_timeline_1196")
        /\ ret' = Returned("api_job_timeline", threads[t].args, HeldList(t))
        /\ orphans' = IF ref \in DOMAIN orphans /\ Holders(ref) = {t}
                      THEN [r \in (DOMAIN orphans) \ {ref} |-> orphans[r]]
                      ELSE orphans
        /\ threads' = [threads EXCEPT ![t] = IdleThread]
        /\ UNCHANGED <<app_vars, backend_status_cache, clock, disk, stores,
                       list_version>>

(* get_analytics, statement by statement (historical_analyzer.py) *)

\* lines 53-66, up to the first step of the loop: the result dict is built
\* and self.history.items() starts to be iterated; item keeps the size the
\* dict had then, tmp the jobs visited with the events seen at the visit
Begin_get_analytics(t, user_id) ==
    /\ At(t, "idle")
    /\ threads' = [threads EXCEPT ![t] =
          [IdleThread EXCEPT !.pc = "get_analytics_66",
                             !.args = <<user_id>>,
                             !.item = IntVal(Len(job_history.keys))]]
    /\ UNCHANGED <<app_vars, backend_status_cache, clock, disk, ret, stores,
                   list_version, orphans>>

\* line 66, the iterator is asked for the next item after the dict has
\* changed size: RuntimeError, which nothing in get_analytics catches
get_analytics_66_raise(t) ==
    /\ At(t, "get_analytics_66")
    /\ Len(job_history.keys) # threads[t].item.value
    /\ ret' = Returned("get_analytics", threads[t].args, Raised("RuntimeError"))
    /\ threads' = [threads EXCEPT ![t] = IdleThread]
    /\ UNCHANGED <<app_vars, backend_status_cache, clock, disk, stores,
                   list_version, orphans>>

\* lines 66-98: the next job and its events are taken and counted
get_analytics_66(t) ==
    LET visited == threads[t].tmp
        job_id == job_history.keys[Len(visited) + 1]
    IN  /\ At(t, "get_analytics_66")
        /\ Len(job_history.keys) = threads[t].item.value
        /\ Len(visited) < Len(job_history.keys)
        /\ threads' = [threads EXCEPT ![t].tmp =
              Append(visited, [job_id |-> job_id,
                               events |-> job_history.items[job_id]])]
        /\ UNCHANGED <<app_vars, backend_status_cache, clock, disk, ret, stores,
                       list_version, orphans>>

\* lines 105-114, after the iterator is exhausted: the figures are those of
\* the jobs as they were visited
get_analytics_105(t) ==
    LET visited == threads[t].tmp
        seen == [keys |-> [i \in 1..Len(visited) |-> visited[i].job_id],
                 items |-> [j \in {visited[i].job_id : i \in 1..Len(visited)} |->
                     visited[CHOOSE i \in 1..Len(visited) :
                                 visited[i].job_id = j].events]]
    IN  /\ At(t, "get_analytics_66")
        /\ Len(job_history.keys) = threads[t].item.value
        /\ Len(visited) = Len(job_history.keys)
        /\ ret' = Returned("get_analytics", threads[t].args,
                           get_analytics(seen, threads[t].args[1]))
        /\ threads' = [threads EXCEPT ![t] = IdleThread]
        /\ UNCHANGED <<app_vars, backend_status_cache, clock, disk, stores,
                       list_version, orphans>>

(* save_history, statement by statement (historical_analyzer.py) *)

\* the file right after open(file, 'w'): zero bytes long
TruncatedFile == [state |-> "truncated", content |-> EmptyDict]

\* every event of history a is in history b, at the same place
IsPrefixOf(a, b) ==
    /\ DOMAIN a.items \subseteq DOMAIN b.items
    /\ \A j \in DOMAIN a.items :
          /\ Len(a.items[j]) <= Len(b.items[j])
          /\ SubSeq(b.items[j], 1, Len(a.items[j])) = a.items[j]

\* What the file can hold after a buffer with the text of store is written
\* at offset 0 and the file object is closed.  A zero-length file becomes the
\* text.  A file some other writer has filled since this one opened it keeps
\* the bytes beyond the end of the text: if it holds a history this one is
\* a prefix of, those bytes stay behind the text and the file is unparseable;
\* if this history holds all of it and more, the text covers it.  Otherwise
\* it depends on which text is the longer.
FlushedFiles(file, store) ==
    CASE file.state = "truncated" -> {FileOf(store)}
      [] file.state = "ok" /\ file.content = store -> {file}
      [] file.state = "ok" /\ IsPrefixOf(file.content, store) -> {FileOf(store)}
      [] file.state = "ok" /\ IsPrefixOf(store, file.content) -> {CorruptFile}
      [] OTHER -> {FileOf(store), CorruptFile}

\* line 28: with open(self.history_file, 'w') as f
save_history_28(t) ==
    /\ At(t, "record_job_event_45")
    /\ disk = "ok"
    /\ job_history_file' = TruncatedFile
    /\ threads' = Goto(t, "save_history_29")
    /\ UNCHANGED <<app_vars, backend_status_cache, clock, disk, ret, job_history,
                   events_recorded, list_version, orphans, predictor_vars,
                   notification_vars>>

\* line 29: json.dump(self.history, f) fills the buffer of f
save_history_29(t) ==
    /\ At(t, "save_history_29")
    /\ threads' = [threads EXCEPT ![t].pc = "save_history_29_exit",
                                  ![t].tmp = <<job_history>>]
    /\ UNCHANGED <<app_vars, backend_status_cache, clock, disk, ret, stores,
                   list_version, orphans>>

\* leaving the with block closes f, which writes the buffer out; save_history
\* and record_job_event return
save_history_29_exit(t) ==
    LET args == threads[t].args
    IN  /\ At(t, "save_history_29_exit")
        /\ job_history_file' \in FlushedFiles(job_history_file, threads[t].tmp[1])
        /\ events_recorded' =
              [events_recorded EXCEPT ![args[1]] = Append(@, threads[t].item)]
        /\ ret' = Returned("record_job_event", args, NoneVal)
        /\ threads' = [threads EXCEPT ![t] = IdleThread]
        /\ UNCHANGED <<app_vars, backend_status_cache, clock, disk, job_history,
                       list_version, orphans, predictor_vars, notification_vars>>

(* send_notification, statement by statement (notification_manager.py) *)

Begin_send_notification(t, user_id, title, message, job_info) ==
    /\ At(t, "idle")
    /\ clock < MaxClock
    /\ clock' = clock + 1
    /\ threads' = [threads EXCEPT ![t] =
          [IdleThread EXCEPT !.pc = "send_notification_38",
                             !.args = <<user_id, title, message, job_info>>]]
    /\ UNCHANGED <<app_vars, backend_status_cache, disk, ret, stores, list_version, orphans>>

\* lines 38-45: notification = {...}
send_notification_38(t) ==
    LET args == threads[t].args
    IN  /\ At(t, "send_notification_38")
        /\ threads' = [threads EXCEPT
              ![t].pc = "send_notification_48",
              ![t].item = Notification(args[1], args[2], args[3], clock, args[4], FALSE)]
        /\ UNCHANGED <<app_vars, backend_status_cache, clock, disk, ret, stores, list_version, orphans>>

\* line 48: if user_id not in self.notifications
send_notification_48(t) ==
    /\ At(t, "send_notification_48")
    /\ threads' = Goto(t, IF threads[t].args[1] \notin DOMAIN notifications
                          THEN "send_notification_49"
                          ELSE "send_notification_51")
    /\ UNCHANGED <<app_vars, backend_status_cache, clock, disk, ret, stores, list_version, orphans>>

\* line 49: self.notifications[user_id] = []
send_notification_49(t) ==
    LET user_id == threads[t].args[1]
    IN  /\ At(t, "send_notification_49")
        /\ notifications' = DictSet(notifications, user_id, <<>>)
        /\ orphans' = OrphansAfterStore(notifications, user_id)
        /\ list_version' = [list_version EXCEPT ![user_id] = @ + 1]
        /\ threads' = Goto(t, "send_notification_51")
        /\ UNCHANGED <<app_vars, backend_status_cache, clock, disk, ret, notifications_file,
                       notifications_sent, slack_webhook, slack_posts,
                       history_vars, predictor_vars>>

\* line 51, self.notifications[user_id]: the list object to append to
send_notification_51(t) ==
    /\ At(t, "send_notification_51")
    /\ threads' = [threads EXCEPT ![t].pc = "send_notification_51_append",
                                  ![t].lst = Load(threads[t].args[1])]
    /\ UNCHANGED <<app_vars, backend_status_cache, clock, disk, ret, stores, list_version, orphans>>

\* line 51, .append(notification)
send_notification_51_append(t) ==
    LET ref == threads[t].lst
        notification == threads[t].item
    IN  /\ At(t, "send_notification_51_append")
        /\ IF IsCurrent(ref)
           THEN /\ notifications' = [notifications EXCEPT ![ref.key] = Append(@, notification)]
                /\ orphans' = orphans
           ELSE /\ notifications' = notifications
                /\ orphans' = OrphansAfterAppend(t, ref, notification)
        /\ threads' = [threads EXCEPT ![t].pc = "send_notification_54",
                                      ![t].lst = NoRef]
        /\ UNCHANGED <<app_vars, backend_status_cache, clock, disk, ret, list_version,
                       notifications_file, notifications_sent, slack_webhook,
                       slack_posts, history_vars, predictor_vars>>

\* line 54: if len(self.notifications[user_id]) > 100
send_notification_54(t) ==
    /\ At(t, "send_notification_54")
    /\ threads' = Goto(t, IF Len(notifications[threads[t].args[1]]) > MaxNotifications
                          THEN "send_notification_55"
                          ELSE "send_notification_57")
    /\ UNCHANGED <<app_vars, backend_status_cache, clock, disk, ret, stores, list_version, orphans>>

\* line 55, right-hand side: self.notifications[user_id][-100:], a new list
send_notification_55(t) ==
    /\ At(t, "send_notification_55")
    /\ threads' = [threads EXCEPT
          ![t].pc = "send_notification_55_store",
          ![t].tmp = LastN(notifications[threads[t].args[1]], MaxNotifications)]
    /\ UNCHANGED <<app_vars, backend_status_cache, clock, disk, ret, stores, list_version, orphans>>

\* line 55, the assignment: self.notifications[user_id] = <the slice>
send_notification_55_store(t) ==
    LET user_id == threads[t].args[1]
    IN  /\ At(t, "send_notification_55_store")
        /\ notifications' = DictSet(notifications, user_id, threads[t].tmp)
        /\ orphans' = OrphansAfterStore(notifications, user_id)
        /\ list_version' = [list_version EXCEPT ![user_id] = @ + 1]
        /\ threads' = [threads EXCEPT ![t].pc = "send_notification_57",
                                      ![t].tmp = <<>>]
        /\ UNCHANGED <<app_vars, backend_status_cache, clock, disk, ret, notifications_file,
                       notifications_sent, slack_webhook, slack_posts,
                       history_vars, predictor_vars>>

\* line 57: self.save_notifications()
send_notification_57(t) ==
    /\ At(t, "send_notification_57")
    /\ notifications_file' = SavedFile(notifications_file, notifications)
    /\ threads' = Goto(t, "send_notification_60")
    /\ UNCHANGED <<app_vars, backend_status_cache, clock, disk, ret, notifications,
                   notifications_sent, slack_webhook, slack_posts, list_version,
                   orphans, history_vars, predictor_vars>>

\* lines 60-61: the Slack post, if any, and the return to the caller
send_notification_60(t, outcome) ==
    LET args == threads[t].args
    IN  /\ At(t, "send_notification_60")
        /\ slack_posts' = SlackPostsAfter(slack_posts, slack_webhook,
                                          args[2], args[3], args[4], outcome)
        /\ notifications_sent' =
              [notifications_sent EXCEPT ![args[1]] = Append(@, threads[t].item)]
        /\ ret' = Returned("send_notification", args, NoneVal)
        /\ threads' = [threads EXCEPT ![t] = IdleThread]
        /\ UNCHANGED <<app_vars, backend_status_cache, clock, disk, notifications,
                       notifications_file, slack_webhook, list_version, orphans,
                       history_vars, predictor_vars>>

----------------------------------------------------------------------------
(* app.py: the per-user caches and the background refresh thread *)

\* flask.session as the running thread sees it: inside a request it carries
\* the caller's user_id (None before login); outside any request the proxy is
\* unbound
RequestContext(user_id) == [kind |-> "request", user_id |-> user_id]
NoRequestContext == [kind |-> "unbound", user_id |-> NoneVal]

\* session.get("user_id"): RuntimeError "Working outside of request context"
\* when the proxy is unbound
session_get_user_id(ctx) ==
    IF ctx.kind = "request" THEN OkVal(ctx.user_id) ELSE Raised("RuntimeError")

\* (public_service, private_service, error_msg) built from the user's token
Services(user_id) == [token_of |-> user_id]

\* What a cache holds after the n-th pull: the data as the handler keeps it;
\* token_of and pull tell whose handles fetched it, and in which pull.
Pulled(services, n, data) ==
    [token_of |-> services.token_of, pull |-> n, data |-> data]

\* a job as process_job_for_display renders it, with the fields analytics
\* reads; creation_time is the strftime text of the date, or "Unknown"
DisplayedJob(job_id, backend, status, creation_time) ==
    [job_id |-> job_id, backend |-> backend, status |-> status,
     creation_time |-> creation_time]

\* a >= b for two creation_time strings: the dates order as their texts do,
\* and "Unknown" follows every date
NotBefore(a, b) == a.kind # "int" \/ (b.kind = "int" /\ a.value >= b.value)

\* processed_jobs.sort(key = creation_time, reverse = True): stable
RECURSIVE SortedByCreationTimeDesc(_)
SortedByCreationTimeDesc(lst) ==
    IF lst = <<>> THEN <<>>
    ELSE LET rest == SortedByCreationTimeDesc(SubSeq(lst, 1, Len(lst) - 1))
             x == lst[Len(lst)]
             n == Cardinality({i \in 1..Len(rest) :
                                  NotBefore(rest[i].creation_time, x.creation_time)})
         IN  SubSeq(rest, 1, n) \o <<x>> \o SubSeq(rest, n + 1, Len(rest))

\* The pulled data is stored under the user_id of the session, and only when
\* that is truthy.  n is the number of pulls made before the call, backends
\* what the remote service answers.
get_backends_for_user(ctx, services, backends, cache, n) ==
    LET user_id == session_get_user_id(ctx)
    IN  IF user_id.kind = "raised"
        THEN [outcome |-> user_id, cache |-> cache, pulls |-> n]
        ELSE [outcome |-> OkVal(backends),
              cache |-> IF user_id.result # NoneVal
                        THEN DictSet(cache, user_id.result.str,
                                     Pulled(services, n + 1, backends))
                        ELSE cache,
              pulls |-> n + 1]

\* all_jobs is what the remote service answers
get_jobs_for_user(ctx, services, all_jobs, cache, n) ==
    LET user_id == session_get_user_id(ctx)
        processed_jobs == SortedByCreationTimeDesc(all_jobs)
    IN  IF user_id.kind = "raised"
        THEN [outcome |-> user_id, cache |-> cache, pulls |-> n]
        ELSE [outcome |-> OkVal(processed_jobs),
              cache |-> IF user_id.result # NoneVal
                        THEN DictSet(cache, user_id.result.str,
                                     Pulled(services, n + 1, processed_jobs))
                        ELSE cache,
              pulls |-> n + 1]

\* get_services_for_user in a request of a user holding a token: the handles
\* are built on the first call and reused afterwards
get_services_for_user(user_id) ==
    IF user_id \in DOMAIN user_services
    THEN user_services
    ELSE DictSet(user_services, user_id, Services(user_id))

\* the refresh thread asleep in time.sleep(POLLING_INTERVAL)
Sleeping == [pc |-> "564", todo |-> <<>>, tracked |-> {}, since |-> 0]

\* the three dicts are empty at import; the refresh thread is started
NoSessions ==
    /\ user_services = EmptyDict
    /\ user_backends = EmptyDict
    /\ user_jobs = EmptyDict
    /\ refresh_thread = Sleeping
    /\ pulls = 0
    /\ fetcher_cache = EmptyDict

\* GET /api/backends/status by a logged-in user
api_backends_status(user_id) ==
    /\ pulls < MaxPulls
    /\ LET services == get_services_for_user(user_id)
           r == get_backends_for_user(RequestContext(StrVal(user_id)),
                                      services[user_id], <<>>, user_backends, pulls)
       IN  /\ user_services' = services
           /\ user_backends' = r.cache
           /\ pulls' = r.pulls
    /\ UNCHANGED <<user_jobs, refresh_thread, clock, disk, stores, fetcher_cache,
                   backend_status_cache, ret, thread_vars>>

\* GET /api/jobs/status by a logged-in user
api_jobs_status(user_id) ==
    /\ pulls < MaxPulls
    /\ LET services == get_services_for_user(user_id)
           r == get_jobs_for_user(RequestContext(StrVal(user_id)),
                                  services[user_id], <<>>, user_jobs, pulls)
       IN  /\ user_services' = services
           /\ user_jobs' = r.cache
           /\ pulls' = r.pulls
    /\ UNCHANGED <<user_backends, refresh_thread, clock, disk, stores, fetcher_cache,
                   backend_status_cache, ret, thread_vars>>

\* GET /logout by a logged-in user
logout(user_id) ==
    /\ user_id \in DOMAIN user_services \cup DOMAIN user_backends \cup DOMAIN user_jobs
    /\ user_services' = Without(user_services, user_id)
    /\ user_backends' = Without(user_backends, user_id)
    /\ user_jobs' = Without(user_jobs, user_id)
    /\ UNCHANGED <<refresh_thread, pulls, clock, disk, stores, fetcher_cache,
                   backend_status_cache, ret, thread_vars>>

\* GET /api/jobs/status in a request thread, up to the store of line 233:
\* get_services_for_user, then get_jobs_for_user reads the session, pulls the
\* jobs and renders them
Begin_api_jobs_status(t, user_id) ==
    LET services == get_services_for_user(user_id)
        r == get_jobs_for_user(RequestContext(StrVal(user_id)),
                               services[user_id], <<>>, EmptyDict, pulls)
    IN  /\ At(t, "idle")
        /\ pulls < MaxPulls
        /\ user_services' = services
        /\ pulls' = r.pulls
        /\ threads' = [threads EXCEPT ![t] =
              [IdleThread EXCEPT !.pc = "get_jobs_for_user_233",
                                 !.args = <<user_id>>,
                                 !.tmp = <<r.cache[user_id]>>]]
        /\ UNCHANGED <<user_backends, user_jobs, refresh_thread, clock, disk,
                       stores, fetcher_cache, backend_status_cache, ret, list_version, orphans>>

\* lines 232-233: if user_id: user_jobs[user_id] = processed_jobs, and the
\* handler answers
get_jobs_for_user_233(t) ==
    /\ At(t, "get_jobs_for_user_233")
    /\ user_jobs' = DictSet(user_jobs, threads[t].args[1], threads[t].tmp[1])
    /\ threads' = [threads EXCEPT ![t] = IdleThread]
    /\ UNCHANGED <<user_services, user_backends, refresh_thread, pulls, clock,
                   disk, stores, fetcher_cache, backend_status_cache, ret, list_version, orphans>>

\* the orders in which a dict with these keys can be iterated
Orderings(keys) ==
    {order \in [1..Cardinality(keys) -> keys] :
        \A i, j \in DOMAIN order : order[i] = order[j] => i = j}

\* background_user_data_refresh wakes and copies the items of user_services;
\* tracked and since remember the cycle's start
background_user_data_refresh_567 ==
    /\ refresh_thread.pc = "564"
    /\ \E order \in Orderings(DOMAIN user_services) :
        refresh_thread' = [pc |-> "567", todo |-> order,
                           tracked |-> DOMAIN user_services, since |-> pulls]
    /\ UNCHANGED <<user_services, user_backends, user_jobs, pulls, clock, disk,
                   stores, fetcher_cache, backend_status_cache, ret, thread_vars>>

\* one pass of the loop body, lines 568-576: refresh the backends, then the
\* jobs; an exception of either ends the pass for this user
background_user_data_refresh_568 ==
    /\ refresh_thread.pc = "567"
    /\ refresh_thread.todo # <<>>
    /\ LET services == Services(Head(refresh_thread.todo))
           b == get_backends_for_user(NoRequestContext, services, <<>>,
                                      user_backends, pulls)
           j == get_jobs_for_user(NoRequestContext, services, <<>>,
                                  user_jobs, b.pulls)
       IN  /\ user_backends' = b.cache
           /\ IF b.outcome.kind = "raised"
              THEN UNCHANGED user_jobs /\ pulls' = b.pulls
              ELSE user_jobs' = j.cache /\ pulls' = j.pulls
    /\ refresh_thread' = [refresh_thread EXCEPT !.todo = Tail(@)]
    /\ UNCHANGED <<user_services, clock, disk, stores, fetcher_cache, backend_status_cache,
                   ret, thread_vars>>

\* the for loop is exhausted: back to time.sleep
background_user_data_refresh_564 ==
    /\ refresh_thread.pc = "567"
    /\ refresh_thread.todo = <<>>
    /\ refresh_thread' = [refresh_thread EXCEPT !.pc = "564"]
    /\ UNCHANGED <<user_services, user_backends, user_jobs, pulls, clock, disk,
                   stores, fetcher_cache, backend_status_cache, ret, thread_vars>>

\* str.upper() of the status texts of the model
Upper(status) ==
    CASE status = "Done" -> "DONE"
      [] status = "Unknown" -> "UNKNOWN"
      [] OTHER -> status

\* success_count / total_jobs * 100
Ratio(num, den) == [num |-> num, den |-> den]

\* the newest jobs of the list taken from its wrong end
analytics_data_last_ten(jobs) ==
    [total_jobs |-> Len(jobs),
     success_rate |->
         Ratio(100 * Cardinality({i \in 1..Len(jobs) :
                                     Upper(jobs[i].status) \in {"DONE", "COMPLETED"}}),
               Len(jobs)),
     average_queue_time |-> 0,
     jobs_by_status |-> CountBy([i \in 1..Len(jobs) |-> Upper(jobs[i].status)]),
     jobs_by_backend |->
         CountBy([i \in 1..Len(jobs) |->
                     IF jobs[i].backend # "Unknown" THEN jobs[i].backend ELSE ""]),
     recent_activity |->
         [i \in 1..Len(LastN(jobs, 10)) |->
             [job_id |-> LastN(jobs, 10)[i].job_id,
              last_event |-> LastN(jobs, 10)[i].status,
              timestamp |-> LastN(jobs, 10)[i].creation_time]]]

\* app.py lines 946-974: the analytics of a job list that is not empty
analytics_data(jobs) ==
    [total_jobs |-> Len(jobs),
     success_rate |->
         Ratio(100 * Cardinality({i \in 1..Len(jobs) :
                                     Upper(jobs[i].status) \in {"DONE", "COMPLETED"}}),
               Len(jobs)),
     average_queue_time |-> 0,
     jobs_by_status |-> CountBy([i \in 1..Len(jobs) |-> Upper(jobs[i].status)]),
     jobs_by_backend |->
         CountBy([i \in 1..Len(jobs) |->
                     IF jobs[i].backend # "Unknown" THEN jobs[i].backend ELSE ""]),
     recent_activity |->
         [i \in 1..Len(FirstN(jobs, 10)) |->
             [job_id |-> jobs[i].job_id,
              last_event |-> jobs[i].status,
              timestamp |-> jobs[i].creation_time]]]

\* GET /analytics by a logged-in user; all_jobs is what the remote service
\* answers if the handler has to pull
analytics(user_id, all_jobs) ==
    LET cached == user_id \in DOMAIN user_jobs
        services == IF cached THEN user_services
                              ELSE get_services_for_user(user_id)
        r == IF cached
             THEN [outcome |-> OkVal(user_jobs[user_id].data),
                   cache |-> user_jobs, pulls |-> pulls]
             ELSE get_jobs_for_user(RequestContext(StrVal(user_id)),
                                    services[user_id], all_jobs, user_jobs, pulls)
        jobs == r.outcome.result
    IN  /\ cached \/ pulls < MaxPulls
        /\ user_services' = services
        /\ user_jobs' = r.cache
        /\ pulls' = r.pulls
        /\ ret' = Returned("analytics", <<user_id>>,
                           IF jobs # <<>>
                           THEN OkVal(analytics_data(jobs))
                           ELSE get_analytics(job_history, [id |-> user_id]))
        /\ UNCHANGED <<user_backends, refresh_thread, clock, disk, stores, fetcher_cache,
                       backend_status_cache, thread_vars>>

----------------------------------------------------------------------------
(* BackendDataFetcher (utils/backend_data_fetcher.py) *)

\* line 10: self.cache_timeout, in seconds
cache_timeout == 300

\* what an attempt to reach the remote service can do: answer, fail to build
\* the service handle (_get_service returns None), or raise
FetchOutcomes == {"ok", "no_service", "raised"}

\* lines 38-60: the data formatted from the remote service's n-th answer; the
\* queue it reports stands for everything that differs between answers
FormattedData(backend_name, n) ==
    [name |-> backend_name,
     description |-> "",
     status |-> [operational |-> TRUE, pending_jobs |-> IntVal(n),
                 status_msg |-> "active"]]

\* lines 69-93
create_fallback_backend_data(backend_name) ==
    [name |-> backend_name,
     description |-> "Could not fetch backend details",
     status |-> [operational |-> FALSE, pending_jobs |-> StrVal("N/A"),
                 status_msg |-> "Unavailable"]]

\* a fetcher that remembers the fallback like a fetched result
get_backend_details_caches_fallback(cache, backend_name, now, n, outcome) ==
    IF /\ backend_name \in DOMAIN cache
       /\ now - cache[backend_name].timestamp < cache_timeout * TicksPerSecond
    THEN [value |-> cache[backend_name].data, cache |-> cache, pulls |-> n]
    ELSE LET data == IF outcome = "ok"
                     THEN FormattedData(backend_name, n + 1)
                     ELSE create_fallback_backend_data(backend_name)
         IN  [value |-> data,
              cache |-> DictSet(cache, backend_name,
                                [data |-> data, timestamp |-> now]),
              pulls |-> n + 1]

\* lines 22-67; the cache key "backend_<name>" is kept as the name; n counts
\* the attempts to reach the remote service made so far
get_backend_details(cache, backend_name, now, n, outcome) ==
    IF /\ backend_name \in DOMAIN cache
       /\ now - cache[backend_name].timestamp < cache_timeout * TicksPerSecond
    THEN [value |-> cache[backend_name].data, cache |-> cache, pulls |-> n]
    ELSE IF outcome = "ok"
    THEN LET formatted_data == FormattedData(backend_name, n + 1)
         IN  [value |-> formatted_data,
              cache |-> DictSet(cache, backend_name,
                                [data |-> formatted_data, timestamp |-> now]),
              pulls |-> n + 1]
    ELSE [value |-> create_fallback_backend_data(backend_name),
          cache |-> cache, pulls |-> n + 1]

\* get_backend_details(backend_name, token)
Call_get_backend_details(backend_name, outcome) ==
    LET r == get_backend_details(fetcher_cache, backend_name, clock, pulls, outcome)
    IN  /\ r.pulls <= MaxPulls
        /\ fetcher_cache' = r.cache
        /\ pulls' = r.pulls
        /\ ret' = Returned("get_backend_details", <<backend_name>>, r.value)
        /\ UNCHANGED <<user_services, user_backends, user_jobs, refresh_thread,
                       clock, disk, stores, backend_status_cache, thread_vars>>

\* time passes between two requests
Elapse(ticks) ==
    /\ clock + ticks <= MaxElapsed
    /\ clock' = clock + ticks
    /\ UNCHANGED <<app_vars, disk, stores, backend_status_cache, ret, thread_vars>>

\* one tick short of the timeout, and the timeout
Waits ==
    {cache_timeout * TicksPerSecond - 1, cache_timeout * TicksPerSecond}

----------------------------------------------------------------------------
(* The QueuePredictor alone *)

PredictorInit ==
    /\ clock = 0
    /\ disk = "ok"
    /\ \E file \in InitialQueueFiles : QueuePredictorInit(file)
    /\ NotificationManagerInit(MissingFile, "")
    /\ HistoricalAnalyzerInit(MissingFile)
    /\ backend_status_cache = <<>>
    /\ ret = NoCall
    /\ NoThreads
    /\ NoSessions

PredictorNext ==
    \/ RecordJobCompletion
    \/ EstimateStartTime
    \/ EstimateAverageWait

SpecPredictor == PredictorInit /\ [][PredictorNext]_vars

\* completions whose queue_time or run_time is zero or negative, and one
\* that has both positive
WindowInputs ==
    { <<"j8", "A", 0, -3>>, <<"j9", "A", -7, 0>>, <<"j1", "A", 30, 10>> }

WindowNext ==
    \/ \E c \in WindowInputs : Call_record_job_completion(c[1], c[2], c[3], c[4])
    \/ \E q \in QueueLengths : Call_estimate_start_time("j1", "A", q)
    \/ Call_estimate_average_wait("A")

SpecWindow == PredictorInit /\ [][WindowNext]_vars

----------------------------------------------------------------------------
(* The score of one snapshot entry *)

PendingJobsValues ==
    {IntVal(p) : p \in 0..MaxPendingJobs} \cup {StrVal("Unknown")}

QubitsValues ==
    {IntVal(q) : q \in 0..MaxQubits} \cup {StrVal("Unknown")}

\* snapshot entries: every combination of the four fields, and entries that
\* lack a key
SnapshotInfos ==
    LET full == {BackendInfo(o, p, q, sim) :
                    o \in BOOLEAN, p \in PendingJobsValues,
                    q \in QubitsValues, sim \in BOOLEAN}
        sparse == {BackendInfo(TRUE, IntVal(3), IntVal(7), FALSE),
                   BackendInfo(TRUE, IntVal(30), IntVal(127), TRUE)}
    IN  full \cup {Without(d, k) : d \in sparse,
                                   k \in {"operational", "pending_jobs", "qubits",
                                          "simulator", "service_type"}}

ScoreInit ==
    /\ clock = 0
    /\ disk = "ok"
    /\ HistoricalAnalyzerInit(MissingFile)
    /\ QueuePredictorInit(MissingFile)
    /\ NotificationManagerInit(MissingFile, "")
    /\ \E info \in SnapshotInfos :
          backend_status_cache = <<[name |-> "ibm_a", info |-> info]>>
    /\ ret = NoCall
    /\ NoThreads
    /\ NoSessions

ScoreNext ==
    \/ CalculateBackendScore
    \/ GetRecommendations

SpecScore == ScoreInit /\ [][ScoreNext]_vars

----------------------------------------------------------------------------
(* Recommendations over a snapshot of several targets *)

TargetNames == <<"ibm_a", "ibm_b", "ibm_c", "ibm_d", "ibm_e", "ibm_f">>

\* status entries as app.py lines 795-803 build them: every key present,
\* pending_jobs an integer; a target whose status could not be read is not
\* operational and has unknown qubits
StatusInfos ==
    { BackendInfo(TRUE, IntVal(0), IntVal(5), TRUE),
      BackendInfo(TRUE, IntVal(10), IntVal(20), FALSE),
      BackendInfo(TRUE, IntVal(3), IntVal(7), FALSE),
      BackendInfo(TRUE, IntVal(30), IntVal(127), FALSE),
      BackendInfo(FALSE, IntVal(0), IntVal(127), FALSE),
      BackendInfo(FALSE, IntVal(0), StrVal("Unknown"), FALSE) }

\* the snapshots of n targets, in the dict's iteration order
Snapshots(n) ==
    {[i \in 1..n |-> [name |-> TargetNames[i], info |-> infos[i]]] :
        infos \in [1..n -> StatusInfos]}

RecommendInit ==
    /\ clock = 0
    /\ disk = "ok"
    /\ HistoricalAnalyzerInit(MissingFile)
    /\ QueuePredictorInit(MissingFile)
    /\ NotificationManagerInit(MissingFile, "")
    /\ \E n \in 0..MaxSnapshot : backend_status_cache \in Snapshots(n)
    /\ ret = NoCall
    /\ NoThreads
    /\ NoSessions

RecommendNext ==
    \/ CalculateBackendScore
    \/ GetRecommendations

SpecRecommend == RecommendInit /\ [][RecommendNext]_vars

----------------------------------------------------------------------------
(* The HistoricalAnalyzer alone *)

HistoryInit ==
    /\ clock = 0
    /\ disk = "ok"
    /\ \E file \in InitialHistoryFiles : HistoricalAnalyzerInit(file)
    /\ QueuePredictorInit(MissingFile)
    /\ NotificationManagerInit(MissingFile, "")
    /\ backend_status_cache = <<>>
    /\ ret = NoCall
    /\ NoThreads
    /\ NoSessions

HistoryNext ==
    \/ RecordJobEvent
    \/ GetJobTimeline
    \/ GetAnalytics

SpecHistory == HistoryInit /\ [][HistoryNext]_vars

----------------------------------------------------------------------------
(* The NotificationManager alone *)

NotifierInit ==
    /\ clock = 0
    /\ disk = "ok"
    /\ \E file \in InitialNotificationFiles, webhook \in Webhooks :
          NotificationManagerInit(file, webhook)
    /\ QueuePredictorInit(MissingFile)
    /\ HistoricalAnalyzerInit(MissingFile)
    /\ backend_status_cache = <<>>
    /\ ret = NoCall
    /\ NoThreads
    /\ NoSessions

NotifierNext ==
    \/ SendNotification
    \/ MarkAsRead
    \/ GetUserNotifications

SpecNotifier == NotifierInit /\ [][NotifierNext]_vars

----------------------------------------------------------------------------
(* Request threads recording job events *)

HistoryThreadsInit ==
    /\ clock = 0
    /\ disk = "ok"
    /\ \E file \in InitialHistoryFiles : HistoricalAnalyzerInit(file)
    /\ QueuePredictorInit(MissingFile)
    /\ NotificationManagerInit(MissingFile, "")
    /\ backend_status_cache = <<>>
    /\ ret = NoCall
    /\ NoThreads
    /\ NoSessions

BeginRecordJobEvent ==
    \E t \in Threads, e \in EventInputs :
        Begin_record_job_event(t, e[1], e[2], e[3], e[4])

HistoryThreadsNext ==
    \/ BeginRecordJobEvent
    \/ \E t \in Threads : record_job_event_35(t)
    \/ \E t \in Threads : record_job_event_36(t)
    \/ \E t \in Threads : record_job_event_38(t)
    \/ \E t \in Threads : record_job_event_44(t)
    \/ \E t \in Threads : record_job_event_44_append(t)
    \/ \E t \in Threads : record_job_event_45(t)

SpecHistoryThreads == HistoryThreadsInit /\ [][HistoryThreadsNext]_vars

----------------------------------------------------------------------------
(* Request threads recording job events and reading timelines *)

TimelineThreadsNext ==
    \/ HistoryThreadsNext
    \/ \E t \in Threads, job_id \in TimelineQueries : api_job_timeline_1195(t, job_id)
    \/ \E t \in Threads : api_job_timeline_1196(t)

SpecTimelineThreads == HistoryThreadsInit /\ [][TimelineThreadsNext]_vars

----------------------------------------------------------------------------
(* Request threads recording job events and computing analytics *)

\* the recordings that complete no job
UncompletedEventInputs ==
    {e \in EventInputs : e[2] = "status_change" => e[4].status # "COMPLETED"}

AnalyticsThreadsNext ==
    \/ \E t \in Threads, e \in UncompletedEventInputs :
          Begin_record_job_event(t, e[1], e[2], e[3], e[4])
    \/ \E t \in Threads : record_job_event_35(t)
    \/ \E t \in Threads : record_job_event_36(t)
    \/ \E t \in Threads : record_job_event_38(t)
    \/ \E t \in Threads : record_job_event_44(t)
    \/ \E t \in Threads : record_job_event_44_append(t)
    \/ \E t \in Threads : record_job_event_45(t)
    \/ \E t \in Threads, user_id \in AnalyticsQueries : Begin_get_analytics(t, user_id)
    \/ \E t \in Threads : get_analytics_66_raise(t)
    \/ \E t \in Threads : get_analytics_66(t)
    \/ \E t \in Threads : get_analytics_105(t)

SpecAnalyticsThreads == HistoryThreadsInit /\ [][AnalyticsThreadsNext]_vars

----------------------------------------------------------------------------
(* Request threads recording job events, save_history statement by statement *)

HistorySavesNext ==
    \/ BeginRecordJobEvent
    \/ \E t \in Threads : record_job_event_35(t)
    \/ \E t \in Threads : record_job_event_36(t)
    \/ \E t \in Threads : record_job_event_38(t)
    \/ \E t \in Threads : record_job_event_44(t)
    \/ \E t \in Threads : record_job_event_44_append(t)
    \/ \E t \in Threads : save_history_28(t)
    \/ \E t \in Threads : save_history_29(t)
    \/ \E t \in Threads : save_history_29_exit(t)

SpecHistorySaves == HistoryThreadsInit /\ [][HistorySavesNext]_vars

----------------------------------------------------------------------------
(* Request threads sending notifications *)

\* notifications.json as an earlier run of the program can have left it: the
\* log of "u1" at the cap
FullLog ==
    [i \in 1..MaxNotifications |->
        Notification("u1", "t0", "m0", i - MaxNotifications - 1, NoneVal, FALSE)]

NotifierThreadsInit ==
    /\ clock = 0
    /\ disk = "ok"
    /\ \E file \in {MissingFile, FileOf([u \in {"u1"} |-> FullLog])},
          webhook \in Webhooks :
          NotificationManagerInit(file, webhook)
    /\ QueuePredictorInit(MissingFile)
    /\ HistoricalAnalyzerInit(MissingFile)
    /\ backend_status_cache = <<>>
    /\ ret = NoCall
    /\ NoThreads
    /\ NoSessions

BeginSendNotification ==
    \E t \in Threads, n \in NotificationInputs :
        Begin_send_notification(t, n[1], n[2], n[3], n[4])

SendNotification60 ==
    \E t \in Threads, outcome \in PostOutcomes :
        /\ At(t, "send_notification_60")
        /\ \/ Configured(slack_webhook) /\ Truthy(threads[t].args[4])
           \/ outcome = "200"
        /\ send_notification_60(t, outcome)

NotifierThreadsNext ==
    \/ BeginSendNotification
    \/ \E t \in Threads : send_notification_38(t)
    \/ \E t \in Threads : send_notification_48(t)
    \/ \E t \in Threads : send_notification_49(t)
    \/ \E t \in Threads : send_notification_51(t)
    \/ \E t \in Threads : send_notification_51_append(t)
    \/ \E t \in Threads : send_notification_54(t)
    \/ \E t \in Threads : send_notification_55(t)
    \/ \E t \in Threads : send_notification_55_store(t)
    \/ \E t \in Threads : send_notification_57(t)
    \/ SendNotification60

SpecNotifierThreads == NotifierThreadsInit /\ [][NotifierThreadsNext]_vars

----------------------------------------------------------------------------
(* send_notification statement by statement, one request at a time *)

BeginSendNotificationAlone ==
    \E t \in Threads, n \in NotificationInputs :
        /\ AllReturned
        /\ Begin_send_notification(t, n[1], n[2], n[3], n[4])

NotifierStepsNext ==
    \/ BeginSendNotificationAlone
    \/ \E t \in Threads : send_notification_38(t)
    \/ \E t \in Threads : send_notification_48(t)
    \/ \E t \in Threads : send_notification_49(t)
    \/ \E t \in Threads : send_notification_51(t)
    \/ \E t \in Threads : send_notification_51_append(t)
    \/ \E t \in Threads : send_notification_54(t)
    \/ \E t \in Threads : send_notification_55(t)
    \/ \E t \in Threads : send_notification_55_store(t)
    \/ \E t \in Threads : send_notification_57(t)
    \/ SendNotification60

SpecNotifierSteps == NotifierThreadsInit /\ [][NotifierStepsNext]_vars

----------------------------------------------------------------------------
(* The three stores on a disk that can fail *)

\* the disk starts or stops failing
DiskChanges ==
    /\ \E d \in DiskStates \ {disk} : disk' = d
    /\ UNCHANGED <<app_vars, clock, stores, backend_status_cache, ret, thread_vars>>

FaultsInit ==
    /\ clock = 0
    /\ disk \in DiskStates
    /\ HistoricalAnalyzerInit(MissingFile)
    /\ QueuePredictorInit(MissingFile)
    /\ NotificationManagerInit(MissingFile, "")
    /\ backend_status_cache = <<>>
    /\ ret = NoCall
    /\ NoThreads
    /\ NoSessions

\* the calls made while the disk fails: one job, one target, one user
RecordJobEventOnDisk ==
    \E e \in {e \in EventInputs : e[1] = "job0" /\ e[3] = NoneVal} :
        Call_record_job_event(e[1], e[2], e[3], e[4])

GetJobTimelineOnDisk == Call_get_job_timeline("job0")

RecordJobCompletionOnDisk ==
    \E c \in {c \in CompletionInputs : c[2] = "B"} :
        Call_record_job_completion(c[1], c[2], c[3], c[4])

EstimateAverageWaitOnDisk == Call_estimate_average_wait("B")

SendNotificationOnDisk ==
    \E n \in {n \in NotificationInputs : n[1] = "u2"} :
        Call_send_notification(n[1], n[2], n[3], n[4], "200")

MarkAsReadOnDisk ==
    \E i \in {NoneVal, IntVal(0)} : Call_mark_as_read("u2", i)

GetUserNotificationsOnDisk ==
    \E unread_only \in BOOLEAN : Call_get_user_notifications("u2", unread_only)

FaultsNext ==
    \/ DiskChanges
    \/ RecordJobEventOnDisk
    \/ GetJobTimelineOnDisk
    \/ RecordJobCompletionOnDisk
    \/ EstimateAverageWaitOnDisk
    \/ SendNotificationOnDisk
    \/ MarkAsReadOnDisk
    \/ GetUserNotificationsOnDisk

SpecFaults == FaultsInit /\ [][FaultsNext]_vars

----------------------------------------------------------------------------
(* The three components constructed over whatever files an earlier run left *)

LoadInit ==
    /\ clock = 0
    /\ disk = "ok"
    /\ \E file \in InitialHistoryFiles : HistoricalAnalyzerInit(file)
    /\ \E file \in {MissingFile, CorruptFile, FileOf(EmptyDict)} :
          QueuePredictorInit(file)
    /\ \E file \in InitialNotificationFiles : NotificationManagerInit(file, "")
    /\ backend_status_cache = <<>>
    /\ ret = NoCall
    /\ NoThreads
    /\ NoSessions

LoadNext ==
    \/ RecordJobEventOnDisk
    \/ GetJobTimeline
    \/ Call_get_analytics(NoneVal)
    \/ RecordJobCompletionOnDisk
    \/ EstimateAverageWait
    \/ \E t \in Targets : Call_estimate_start_time("j1", t, 2)
    \/ SendNotificationOnDisk
    \/ MarkAsReadOnDisk
    \/ GetUserNotifications

SpecLoad == LoadInit /\ [][LoadNext]_vars

----------------------------------------------------------------------------
(* Requests of logged-in users beside the background refresh thread *)

RefreshInit ==
    /\ clock = 0
    /\ disk = "ok"
    /\ QueuePredictorInit(MissingFile)
    /\ NotificationManagerInit(MissingFile, "")
    /\ HistoricalAnalyzerInit(MissingFile)
    /\ backend_status_cache = <<>>
    /\ ret = NoCall
    /\ NoThreads
    /\ NoSessions

RefreshNext ==
    \/ \E user_id \in Users : api_backends_status(user_id)
    \/ \E user_id \in Users : api_jobs_status(user_id)
    \/ \E user_id \in Users : logout(user_id)
    \/ background_user_data_refresh_567
    \/ background_user_data_refresh_568
    \/ background_user_data_refresh_564

SpecRefresh == RefreshInit /\ [][RefreshNext]_vars

----------------------------------------------------------------------------
(* Every operation of the four components, over loaded stores and a snapshot *)

\* snapshots of two targets, the first not operational, the second an
\* operational simulator
ReadSnapshots ==
    {s \in Snapshots(2) : /\ ~Get(s[1].info, "operational", FALSE)
                          /\ Get(s[1].info, "qubits", IntVal(0)) = StrVal("Unknown")
                          /\ Get(s[2].info, "operational", FALSE)
                          /\ Get(s[2].info, "simulator", FALSE)}

ReadsInit ==
    /\ clock = 0
    /\ disk = "ok"
    /\ \E file \in InitialHistoryFiles \ {MissingFile} : HistoricalAnalyzerInit(file)
    /\ \E file \in {CorruptFile, FileOf(EmptyDict)} : QueuePredictorInit(file)
    /\ \E file \in InitialNotificationFiles \ {MissingFile} :
          NotificationManagerInit(file, "")
    /\ backend_status_cache \in ReadSnapshots
    /\ ret = NoCall
    /\ NoThreads
    /\ NoSessions

ReadsNext ==
    \/ LoadNext
    \/ \E u \in AnalyticsQueries \ {NoneVal} : Call_get_analytics(u)
    \/ GetRecommendations

SpecReads == ReadsInit /\ [][ReadsNext]_vars

----------------------------------------------------------------------------
(* Request threads pulling jobs while users log out *)

LogoutNext ==
    \/ \E t \in Threads, user_id \in Users : Begin_api_jobs_status(t, user_id)
    \/ \E t \in Threads : get_jobs_for_user_233(t)
    \/ \E user_id \in Users : api_backends_status(user_id)
    \/ \E user_id \in Users : logout(user_id)
    \/ background_user_data_refresh_567
    \/ background_user_data_refresh_568
    \/ background_user_data_refresh_564

SpecLogout == RefreshInit /\ [][LogoutNext]_vars

----------------------------------------------------------------------------
(* The BackendDataFetcher alone, with time passing between the calls *)

FetcherNext ==
    \/ \E backend_name \in Targets, outcome \in FetchOutcomes :
          Call_get_backend_details(backend_name, outcome)
    \/ \E ticks \in Waits : Elapse(ticks)

SpecFetcher == RefreshInit /\ [][FetcherNext]_vars

----------------------------------------------------------------------------
(* The analytics page of logged-in users *)

\* the jobs the remote service can answer with
RemoteJobs ==
    { DisplayedJob("j1", "A", "DONE", IntVal(3)),
      DisplayedJob("j2", "Unknown", "Done", IntVal(1)),
      DisplayedJob("j3", "B", "RUNNING", StrVal("Unknown")),
      DisplayedJob("j4", "A", "COMPLETED", IntVal(2)) }

\* twelve jobs created at twelve different times, in no particular order; the
\* third has no creation date
ManyJobs ==
    [i \in 1..12 |->
        DisplayedJob(<<"k1", "k2", "k3", "k4", "k5", "k6",
                       "k7", "k8", "k9", "k10", "k11", "k12">>[i],
                     IF i % 3 = 0 THEN "Unknown" ELSE IF i % 3 = 1 THEN "A" ELSE "B",
                     IF i % 2 = 0 THEN "DONE" ELSE "QUEUED",
                     IF i = 3 THEN StrVal("Unknown") ELSE IntVal((i * 5) % 12))]

\* what the remote service answers: nothing, one job, two jobs of which the
\* older or undated comes first, or many
JobLists ==
    {<<>>, ManyJobs} \cup {<<j>> : j \in RemoteJobs}
        \cup {<<j, k>> : j \in {x \in RemoteJobs : x.job_id \in {"j2", "j3"}},
                          k \in {x \in RemoteJobs : x.job_id \in {"j1", "j4"}}}

\* job_history.json as the submission handlers of app.py leave it
SubmittedJob ==
    <<Event("submitted_estimator", -5, [backend |-> "A"])>>

AnalyticsInit ==
    /\ clock = 0
    /\ disk = "ok"
    /\ QueuePredictorInit(MissingFile)
    /\ NotificationManagerInit(MissingFile, "")
    /\ \E file \in {MissingFile,
                    FileOf([keys |-> <<"job0">>,
                            items |-> [j \in {"job0"} |-> SubmittedJob]])} :
          HistoricalAnalyzerInit(file)
    /\ backend_status_cache = <<>>
    /\ ret = NoCall
    /\ NoThreads
    /\ NoSessions

AnalyticsNext ==
    \/ \E user_id \in Users, all_jobs \in JobLists : analytics(user_id, all_jobs)
    \/ \E user_id \in Users : logout(user_id)

SpecAnalytics == AnalyticsInit /\ [][AnalyticsNext]_vars

----------------------------------------------------------------------------
(* The application as a whole: the handlers that show jobs, the pages that
   show estimates, and the refresh thread *)

\* the job lists with a finished job on a known target, and the empty answer
CompletedJobLists ==
    {<<>>} \cup {<<j>> : j \in {x \in RemoteJobs : x.job_id \in {"j1", "j3", "j4"}}}

CompletionsNext ==
    \/ \E user_id \in Users, all_jobs \in CompletedJobLists :
          analytics(user_id, all_jobs)
    \/ \E user_id \in Users : logout(user_id)
    \/ background_user_data_refresh_567
    \/ background_user_data_refresh_568
    \/ background_user_data_refresh_564
    \/ EstimateAverageWait
    \/ \E t \in Targets : Call_estimate_start_time("j1", t, 2)

\* the refresh thread is a daemon thread that keeps running; whatever else
\* can happen eventually does
SpecCompletions ==
    /\ AnalyticsInit
    /\ [][CompletionsNext]_vars
    /\ WF_vars(background_user_data_refresh_567)
    /\ WF_vars(background_user_data_refresh_568)
    /\ WF_vars(background_user_data_refresh_564)
    /\ WF_vars(CompletionsNext)

----------------------------------------------------------------------------
(* Properties of the QueuePredictor *)

\* the list the predictor holds for a target ([] when the key is absent)
SamplesOf(t) == IF t \in DOMAIN queue_history THEN queue_history[t] ELSE <<>>

PositiveQueueIdx(t) == {i \in 1..Len(SamplesOf(t)) : SamplesOf(t)[i].queue_time > 0}
PositiveRunIdx(t) == {i \in 1..Len(SamplesOf(t)) : SamplesOf(t)[i].run_time > 0}

\* the total of the numbers f[i], i in idx
RECURSIVE TotalOver(_, _)
TotalOver(f, idx) ==
    IF idx = {} THEN 0
    ELSE LET i == CHOOSE x \in idx : TRUE
         IN  f[i] + TotalOver(f, idx \ {i})

ReturnedFrom(op) == ret.op = op

\* the step is a call of op
IsCallOf(op) == ret'.op = op

\* C3: a target's sample list has length min(n, 1000), n the number of
\* samples recorded for it, and holds the most recently recorded samples in
\* recording order.
C3_RetainsMostRecentSamples ==
    \A t \in Targets :
        LET n == Len(queue_recorded[t])
            kept == SamplesOf(t)
        IN  /\ Len(kept) = IF n < MaxSamples THEN n ELSE MaxSamples
            /\ \A i \in 1..Len(kept) : kept[i] = queue_recorded[t][n - Len(kept) + i]

C3_Witness ==
    \E t \in Targets :
        /\ Len(queue_recorded[t]) > MaxSamples
        /\ ReturnedFrom("record_job_completion")
        /\ ret.args[2] = t

\* total and number of the positive queue_time / run_time samples of a target
PositiveQueueTotal(t) == TotalOver([i \in 1..Len(SamplesOf(t)) |-> SamplesOf(t)[i].queue_time],
              PositiveQueueIdx(t))
PositiveRunTotal(t) == TotalOver([i \in 1..Len(SamplesOf(t)) |-> SamplesOf(t)[i].run_time],
              PositiveRunIdx(t))

\* k = floor(num / den), for den > 0
IsFloorOf(k, num, den) == k * den <= num /\ num < (k + 1) * den

\* C6: estimate_average_wait returns "Unknown" iff the target has no retained
\* sample with queue_time > 0; otherwise, m being the mean of the positive
\* queue times, floor(m) seconds when m < 60, floor(m / 60) minutes when
\* 60 <= m < 3600, floor(m / 3600) hours when m >= 3600.
C6_AverageWaitFormat ==
    ReturnedFrom("estimate_average_wait") =>
        LET t == ret.args[1]
            total == PositiveQueueTotal(t)
            count == Cardinality(PositiveQueueIdx(t))
        IN  /\ ret.value = Unknown <=> count = 0
            /\ count > 0 =>
                 \E k \in 0..59 :
                    \/ /\ total < 60 * count
                       /\ IsFloorOf(k, total, count)
                       /\ ret.value = Text(k, "seconds")
                    \/ /\ 60 * count <= total /\ total < 3600 * count
                       /\ IsFloorOf(k, total, 60 * count)
                       /\ ret.value = Text(k, "minutes")
                    \/ /\ 3600 * count <= total
                       /\ IsFloorOf(k, total, 3600 * count)
                       /\ ret.value = Text(k, "hours")

\* a mean of exactly 3600 seconds is reported as "1 hours"
C6_Witness ==
    /\ ReturnedFrom("estimate_average_wait")
    /\ PositiveQueueIdx(ret.args[1]) # {}
    /\ PositiveQueueTotal(ret.args[1]) = 3600 * Cardinality(PositiveQueueIdx(ret.args[1]))
    /\ ret.value = Text(1, "hours")

\* the predictor started empty and recorded (A, 30, 10) and then (A, 90, 20)
C7_Scenario ==
    /\ Len(queue_recorded["A"]) = 2
    /\ queue_recorded["B"] = <<>>
    /\ queue_recorded["A"][1].queue_time = 30 /\ queue_recorded["A"][1].run_time = 10
    /\ queue_recorded["A"][2].queue_time = 90 /\ queue_recorded["A"][2].run_time = 20

\* now + n seconds as the code prints it: whole seconds
SecondsFromNow(n) == TimeVal(clock \div TicksPerSecond + n)

\* C7 as stated: in the scenario estimate_average_wait("A") returns
\* "60 seconds" and estimate_start_time(job, "A", 2) returns now + 30 seconds.
C7_AsStated ==
    C7_Scenario =>
        /\ (ReturnedFrom("estimate_average_wait") /\ ret.args = <<"A">>)
              => ret.value = Text(60, "seconds")
        /\ (ReturnedFrom("estimate_start_time") /\ ret.args = <<"j1", "A", 2>>)
              => ret.value = SecondsFromNow(30)

\* C7 (amended): in the scenario estimate_average_wait("A") returns
\* "1 minutes" (the mean 60 is not below 60) and
\* estimate_start_time(job, "A", 2) returns now + 30 seconds.
C7_ScenarioResults ==
    C7_Scenario =>
        /\ estimate_average_wait(queue_history, "A") = Text(1, "minutes")
        /\ estimate_start_time(queue_history, clock, "A", 2) = SecondsFromNow(30)
        /\ (ReturnedFrom("estimate_average_wait") /\ ret.args = <<"A">>)
              => ret.value = Text(1, "minutes")
        /\ (ReturnedFrom("estimate_start_time") /\ ret.args = <<"j1", "A", 2>>)
              => ret.value = SecondsFromNow(30)

C7_Witness ==
    /\ C7_Scenario
    /\ ReturnedFrom("estimate_start_time")
    /\ ret.args = <<"j1", "A", 2>>
    /\ ret.value.kind = "time"

\* the instant now + q * avg_run_time of a target, in whole seconds
ExpectedStart(t, q) ==
    LET total == PositiveRunTotal(t)
        count == Cardinality(PositiveRunIdx(t))
        k == CHOOSE x \in 0..(clock + q * total + 1) :
                IsFloorOf(x, clock * count + TicksPerSecond * q * total,
                          TicksPerSecond * count)
    IN  TimeVal(k)

\* C8 as stated: estimate_start_time returns none exactly when the target
\* has no positive run_time sample, and now + q * avg_run_time for every
\* q >= 0, q = 0 included.
C8_AsStated ==
    (ReturnedFrom("estimate_start_time") /\ ret.args[3] >= 0) =>
        LET t == ret.args[2]
            q == ret.args[3]
        IN  /\ ret.value = NoneVal <=> PositiveRunIdx(t) = {}
            /\ PositiveRunIdx(t) # {} => ret.value = ExpectedStart(t, q)

\* C8 (amended): for q >= 0, estimate_start_time returns none exactly when
\* the target has no positive run_time sample or q = 0 (the estimated wait
\* q * avg_run_time is not positive), and now + q * avg_run_time otherwise.
C8_StartTimeEstimate ==
    (ReturnedFrom("estimate_start_time") /\ ret.args[3] >= 0) =>
        LET t == ret.args[2]
            q == ret.args[3]
        IN  /\ ret.value = NoneVal <=> (PositiveRunIdx(t) = {} \/ q = 0)
            /\ (PositiveRunIdx(t) # {} /\ q > 0) => ret.value = ExpectedStart(t, q)

\* an empty queue on a target with positive run times: none
C8_Witness ==
    /\ ReturnedFrom("estimate_start_time")
    /\ ret.args[3] = 0
    /\ PositiveRunIdx(ret.args[2]) # {}
    /\ ret.value = NoneVal

\* C9: estimate_start_time with a negative current_queue_length fails with a
\* validation error.
C9_NegativeQueueLengthRejected ==
    (ReturnedFrom("estimate_start_time") /\ ret.args[3] < 0) =>
        ret.value.kind = "raised"

----------------------------------------------------------------------------
(* Properties of the HistoricalAnalyzer *)

\* C1: get_timeline(job) is exactly the sequence of events recorded for the
\* job, in recording order, after any sequence of record_event, get_timeline
\* and get_analytics calls.
C1_TimelineIsRecordingOrder ==
    /\ \A j \in Jobs : get_job_timeline(job_history, j) = events_recorded[j]
    /\ \A j \in TimelineQueries \ Jobs : get_job_timeline(job_history, j) = <<>>
    /\ ReturnedFrom("get_job_timeline") =>
          ret.value = IF ret.args[1] \in Jobs THEN events_recorded[ret.args[1]] ELSE <<>>

\* two events on one job, one on another, an analytics call in between
C1_Witness ==
    /\ ReturnedFrom("get_analytics")
    /\ \E j \in Jobs : Len(events_recorded[j]) >= 2
    /\ \A j \in Jobs : events_recorded[j] # <<>>
    /\ clock >= 2

\* the positions of the events of a type in a timeline
PositionsOf(events, type) == {i \in 1..Len(events) : events[i].type = type}

First(positions) == CHOOSE i \in positions : \A k \in positions : i <= k
Last(positions) == CHOOSE i \in positions : \A k \in positions : i >= k

\* the jobs an analytics call with this filter looks at
JobsInScope(user_id) ==
    {j \in DOMAIN job_history.items : TakesPart(job_history.items[j], user_id)}

\* the jobs in scope whose most recent status_change carries this status
JobsWithStatus(user_id, status) ==
    {j \in JobsInScope(user_id) :
        LET events == job_history.items[j]
            changes == PositionsOf(events, "status_change")
        IN  /\ changes # {}
            /\ Get(events[Last(changes)].data, "status", "unknown") = status}

\* the jobs in scope whose first backend_assigned names this backend
JobsOnBackend(user_id, backend) ==
    {j \in JobsInScope(user_id) :
        LET events == job_history.items[j]
            assigned == PositionsOf(events, "backend_assigned")
        IN  /\ assigned # {}
            /\ Get(events[First(assigned)].data, "backend", "unknown") = backend}

\* the ticks between the first queued and the first running event of a job
\* (0 when it lacks one of them)
QueueGap(j) ==
    LET events == job_history.items[j]
        queued == PositionsOf(events, "queued")
        running == PositionsOf(events, "running")
    IN  IF queued # {} /\ running # {}
        THEN events[First(running)].timestamp - events[First(queued)].timestamp
        ELSE 0

Statuses == {"COMPLETED", "RUNNING", "unknown"}
Backends == {"A", "unknown"}

\* C19: get_analytics never raises, whatever the store holds: jobs without a
\* status_change, backend_assigned, queued or running event, jobs whose
\* latest status is COMPLETED, or nothing at all; it returns a result.
C19_AnalyticsNeverRaises ==
    ReturnedFrom("get_analytics") => ret.value.kind = "ok"

\* C20: get_analytics counts each job in jobs_by_status under the status of
\* its most recent status_change and in jobs_by_backend under the backend of
\* its first backend_assigned; when at least one job is completed,
\* average_queue_time is the sum of the jobs' queued-to-running gaps, in
\* seconds, divided by the number of completed jobs.
C20_AnalyticsCounts ==
    ReturnedFrom("get_analytics") =>
        LET user_id == ret.args[1]
            completed == Cardinality(JobsWithStatus(user_id, "COMPLETED"))
            gaps == [j \in JobsInScope(user_id) |-> QueueGap(j)]
        IN  /\ ret.value.kind = "ok"
            /\ \A status \in Statuses :
                  Get(ret.value.result.jobs_by_status, status, 0)
                      = Cardinality(JobsWithStatus(user_id, status))
            /\ DOMAIN ret.value.result.jobs_by_status \subseteq Statuses
            /\ \A backend \in Backends :
                  Get(ret.value.result.jobs_by_backend, backend, 0)
                      = Cardinality(JobsOnBackend(user_id, backend))
            /\ DOMAIN ret.value.result.jobs_by_backend \subseteq Backends
            /\ completed >= 1 =>
                  ret.value.result.average_queue_time * completed * TicksPerSecond
                      = TotalOver(gaps, DOMAIN gaps)

\* C30: get_analytics called with a user filter counts over the jobs that
\* match the filter: total_jobs is their number, and success_rate is the
\* completed ones among them divided by their number, times 100.
C30_FilteredDenominator ==
    (ReturnedFrom("get_analytics") /\ ret.args[1] # NoneVal) =>
        LET matching == Cardinality(JobsInScope(ret.args[1]))
            completed == Cardinality(JobsWithStatus(ret.args[1], "COMPLETED"))
        IN  /\ ret.value.kind = "ok"
            /\ ret.value.result.total_jobs = matching
            /\ ret.value.result.success_rate * matching = completed * 100

\* the step is a record_job_event call that repeats the arguments of the call
\* made just before it
RepeatsRecording ==
    /\ ret.op = "record_job_event"
    /\ IsCallOf("record_job_event")
    /\ ret'.args = ret.args

\* the job's timeline grew by one entry that equals the entry before it, which
\* the call made just before had appended
AppendedTwin ==
    LET before == get_job_timeline(job_history, ret.args[1])
        after == get_job_timeline(job_history', ret.args[1])
        n == Len(after)
    IN  /\ n >= 2
        /\ SubSeq(after, 1, n - 1) = before
        /\ after[n] = after[n - 1]
        /\ after[n].type = ret.args[2]

\* C24 as stated: two record_job_event calls with identical arguments, of any
\* kind, leave two equal adjacent entries at the end of the job's timeline.
C24_TwinsForIdenticalArguments ==
    [][RepeatsRecording => AppendedTwin]_vars

\* C24: two record_job_event calls with identical arguments that include a
\* timestamp leave the job's timeline two entries longer, the two new entries
\* equal and adjacent at the end; when the timestamp is omitted both calls
\* append as well, but each entry carries the time of its own call.
C24_TwinsForIdenticalStampedArguments ==
    [][RepeatsRecording =>
         LET before == get_job_timeline(job_history, ret.args[1])
             after == get_job_timeline(job_history', ret.args[1])
         IN  /\ Len(after) = Len(before) + 1
             /\ Len(before) >= 1
             /\ ret.args[3] # NoneVal => AppendedTwin
             /\ ret.args[3] = NoneVal =>
                   /\ SubSeq(after, 1, Len(before)) = before
                   /\ after[Len(after)].type = before[Len(before)].type
                   /\ after[Len(after)].data = before[Len(before)].data
                   /\ after[Len(after)].timestamp = clock
                   /\ before[Len(before)].timestamp < clock
      ]_vars

\* the same stamped event recorded twice in a row
C24_Witness ==
    /\ ReturnedFrom("record_job_event")
    /\ ret.args[3] # NoneVal
    /\ LET events == get_job_timeline(job_history, ret.args[1])
       IN  /\ Len(events) >= 2
           /\ events[Len(events)] = events[Len(events) - 1]

----------------------------------------------------------------------------
(* Properties of the NotificationManager *)

LogOf(u) == Get(notifications, u, <<>>)

\* C4: a user's log never holds more than 100 entries, and it holds the most
\* recently sent notifications in sending order, whatever was marked as read.
C4_LogBounded ==
    \A u \in Users :
        LET n == Len(notifications_sent[u])
            log == LogOf(u)
        IN  /\ Len(log) <= MaxNotifications
            /\ Len(log) = Min(n, MaxNotifications)
            /\ \A i \in 1..Len(log) :
                  [log[i] EXCEPT !.read = FALSE] = notifications_sent[u][n - Len(log) + i]

\* more than 100 sent, some of the retained ones read
C4_Witness ==
    \E u \in Users :
        /\ Len(notifications_sent[u]) > MaxNotifications
        /\ \E i \in 1..Len(LogOf(u)) : LogOf(u)[i].read
        /\ ReturnedFrom("send_notification")
        /\ ret.args[1] = u

\* C13: mark_as_read(user) without an index leaves every notification of the
\* user's log with read = true, whatever was sent and marked before, and
\* changes neither the number nor the order of the entries, nor anything else
\* in them.
C13_MarkAllRead ==
    [][ (IsCallOf("mark_as_read") /\ ret'.args[2] = NoneVal) =>
            LET u == ret'.args[1]
            IN  /\ DOMAIN notifications' = DOMAIN notifications
                /\ u \in DOMAIN notifications =>
                      /\ Len(notifications'[u]) = Len(notifications[u])
                      /\ \A i \in 1..Len(notifications[u]) :
                            /\ notifications'[u][i].read
                            /\ notifications'[u][i] =
                                  [notifications[u][i] EXCEPT !.read = TRUE]
      ]_vars

\* a full log, the two newest entries sent in this run, all marked at once
C13_Witness ==
    /\ ReturnedFrom("mark_as_read")
    /\ ret.args[2] = NoneVal
    /\ Len(notifications_sent[ret.args[1]]) > MaxNotifications
    /\ Len(LogOf(ret.args[1])) = MaxNotifications
    /\ \A i \in 1..Len(LogOf(ret.args[1])) : LogOf(ret.args[1])[i].read

\* C14: mark_as_read(user, i) with 0 <= i < len(log) sets read on the entry
\* at position i and changes nothing else: not the other entries, not the
\* other fields of that entry, not the length or order of the log, not the
\* logs of other users.
C14_MarkOneFrame ==
    [][ (/\ IsCallOf("mark_as_read")
         /\ ret'.args[2] # NoneVal
         /\ ret'.args[1] \in DOMAIN notifications
         /\ 0 <= ret'.args[2].value
         /\ ret'.args[2].value < Len(notifications[ret'.args[1]])) =>
            LET u == ret'.args[1]
                i == ret'.args[2].value
            IN  /\ DOMAIN notifications' = DOMAIN notifications
                /\ \A v \in DOMAIN notifications :
                      /\ Len(notifications'[v]) = Len(notifications[v])
                      /\ \A k \in 1..Len(notifications[v]) :
                            IF v = u /\ k = i + 1
                            THEN /\ notifications'[v][k].read
                                 /\ notifications'[v][k] =
                                       [notifications[v][k] EXCEPT !.read = TRUE]
                            ELSE notifications'[v][k] = notifications[v][k]
      ]_vars

\* two notifications sent, the one at position 1 marked, the one at
\* position 0 still unread
C14_Witness ==
    /\ ReturnedFrom("mark_as_read")
    /\ ret.args[2] = IntVal(1)
    /\ Len(LogOf(ret.args[1])) = 2
    /\ LogOf(ret.args[1])[2].read
    /\ ~LogOf(ret.args[1])[1].read

\* C15: mark_as_read with an index out of range (negative, or >= len(log)),
\* or for a user without a log, returns normally and changes nothing: no
\* read flag, and no log appears for the unknown user.
C15_OutOfRangeIsNoOp ==
    [][ (/\ IsCallOf("mark_as_read")
         /\ \/ ret'.args[1] \notin DOMAIN notifications
            \/ /\ ret'.args[2] # NoneVal
               /\ \/ ret'.args[2].value < 0
                  \/ ret'.args[2].value >= Len(notifications[ret'.args[1]])) =>
            /\ ret'.value = NoneVal
            /\ notifications' = notifications
      ]_vars

\* index -1 on a log whose last entry is unread: it stays unread
C15_Witness ==
    /\ ReturnedFrom("mark_as_read")
    /\ ret.args[2] = IntVal(-1)
    /\ LogOf(ret.args[1]) # <<>>
    /\ ~LogOf(ret.args[1])[Len(LogOf(ret.args[1]))].read

\* thread t leaves send_notification in this step
Leaves_send_notification(t) ==
    At(t, "send_notification_60") /\ threads'[t].pc = "idle"

\* lst is not empty and ends with x
EndsWith(lst, x) == lst # <<>> /\ lst[Len(lst)] = x

\* C16: a send_notification call makes one delivery attempt when a webhook is
\* configured and job_info is given, and none otherwise; the attempt is made
\* when the notification is already in the log and in the saved file, and a
\* failed attempt is not repeated.
C16_OneAttemptAfterPersist ==
    [][ /\ SubSeq(slack_posts', 1, Len(slack_posts)) = slack_posts
        /\ (\A t \in Threads : ~Leaves_send_notification(t)) =>
              slack_posts' = slack_posts
        /\ \A t \in Threads :
              Leaves_send_notification(t) =>
                  LET args == threads[t].args
                  IN  IF Configured(slack_webhook) /\ Truthy(args[4])
                      THEN /\ Len(slack_posts') = Len(slack_posts) + 1
                           /\ slack_posts'[Len(slack_posts')].url = slack_webhook
                           /\ slack_posts'[Len(slack_posts')].payload =
                                 SlackPayload(args[2], args[3], args[4])
                           /\ EndsWith(LogOf(args[1]), threads[t].item)
                           /\ notifications_file.state = "ok"
                           /\ EndsWith(Get(notifications_file.content, args[1], <<>>),
                                       threads[t].item)
                      ELSE slack_posts' = slack_posts
      ]_vars

\* two calls with job_info and a webhook: the first attempt raised and was
\* not repeated, the second was made
C16_Witness ==
    /\ AllReturned
    /\ ReturnedFrom("send_notification")
    /\ Len(slack_posts) = 2
    /\ slack_posts[1].outcome = "raised"
    /\ Len(LogOf("u1")) = 2

\* C17: a delivery that fails, by a response other than 200 or by an
\* exception, leaves the notification's record alone: send_notification
\* returns normally, and the notification is the newest entry of the user's
\* log and of the saved file, with read = false.
C17_DeliveryFailureKeepsRecord ==
    [][ (/\ IsCallOf("send_notification")
         /\ Len(slack_posts') = Len(slack_posts) + 1
         /\ slack_posts'[Len(slack_posts')].outcome # "200") =>
            LET args == ret'.args
                sent == Notification(args[1], args[2], args[3], clock, args[4], FALSE)
            IN  /\ ret'.value = NoneVal
                /\ EndsWith(Get(notifications', args[1], <<>>), sent)
                /\ notifications_file'.state = "ok"
                /\ EndsWith(Get(notifications_file'.content, args[1], <<>>), sent)
      ]_vars

\* the webhook call of the last send raised; its notification is in the log,
\* unread
C17_Witness ==
    /\ ReturnedFrom("send_notification")
    /\ Configured(slack_webhook)
    /\ Truthy(ret.args[4])
    /\ slack_posts # <<>>
    /\ slack_posts[Len(slack_posts)].outcome = "raised"
    /\ LogOf(ret.args[1]) # <<>>
    /\ LogOf(ret.args[1])[Len(LogOf(ret.args[1]))].title = ret.args[2]
    /\ ~LogOf(ret.args[1])[Len(LogOf(ret.args[1]))].read

\* the positions of the user's log whose entry has read = false
UnreadPositions(u) == {i \in 1..Len(LogOf(u)) : LogOf(u)[i].read = FALSE}

\* C26: get_user_notifications(user, unread_only) returns the user's whole
\* log in log order when unread_only is false, and exactly the entries whose
\* read flag is false, in log order, when it is true; right after
\* mark_as_read(user) without an index, the unread view is empty.
C26_UnreadView ==
    /\ ReturnedFrom("get_user_notifications") =>
          LET u == ret.args[1]
          IN  IF ret.args[2]
              THEN /\ ret.value = SelectSeq(LogOf(u), LAMBDA n : n.read = FALSE)
                   /\ Len(ret.value) = Cardinality(UnreadPositions(u))
              ELSE ret.value = LogOf(u)
    /\ (ReturnedFrom("mark_as_read") /\ ret.args[2] = NoneVal) =>
          get_user_notifications(notifications, ret.args[1], TRUE) = <<>>

\* an unread view that leaves out the read entries of a log holding both kinds
C26_Witness ==
    /\ ReturnedFrom("get_user_notifications")
    /\ ret.args[2]
    /\ ret.value # <<>>
    /\ Len(ret.value) < Len(LogOf(ret.args[1]))
    /\ \E i \in UnreadPositions(ret.args[1]) : i > 1 /\ LogOf(ret.args[1])[i - 1].read

----------------------------------------------------------------------------
(* Properties of the BackendRecommender *)

\* C10: for integer pending_jobs >= 0 and qubits >= 0 the score is
\* 100 - min(2 * pending_jobs, 50) + (10 if simulator) + min(qubits / 5, 20)
\* clamped to [0, 100], and every score of a returned recommendation lies in
\* [0, 100].
C10_ScoreFormula ==
    /\ ReturnedFrom("calculate_backend_score") =>
          LET info == ret.args[2]
          IN  ({"pending_jobs", "qubits", "simulator"} \subseteq DOMAIN info
                 /\ info.pending_jobs.kind = "int" /\ info.qubits.kind = "int") =>
              LET penalty == IF 2 * info.pending_jobs.value < 50
                             THEN 2 * info.pending_jobs.value ELSE 50
                  \* min(qubits / 5, 20), times QubitsPerPoint
                  bonus == IF info.qubits.value < 20 * QubitsPerPoint
                           THEN info.qubits.value ELSE 20 * QubitsPerPoint
                  raw == (100 - penalty + (IF info.simulator THEN 10 ELSE 0))
                            * QubitsPerPoint + bonus
              IN  /\ ret.value.kind = "points"
                  /\ ret.value.den = QubitsPerPoint
                  /\ ret.value.num = IF raw > 100 * QubitsPerPoint
                                     THEN 100 * QubitsPerPoint
                                     ELSE IF raw < 0 THEN 0 ELSE raw
    /\ (ReturnedFrom("get_recommendations") /\ ret.value.kind = "ok") =>
          \A i \in 1..Len(ret.value.result) :
              LET score == ret.value.result[i].score
              IN  0 <= score.num /\ score.num <= 100 * score.den

\* a fractional score: 7 qubits are worth 1.4 points
C10_Witness ==
    /\ ReturnedFrom("calculate_backend_score")
    /\ ret.value.kind = "points"
    /\ ret.value.num = 97 * QubitsPerPoint + 2
    /\ ret.args[2].operational

\* the status info, with pending_jobs p
WithPendingJobs(info, p) == DictSet(info, "pending_jobs", IntVal(p))

\* the status info, with q qubits
WithQubits(info, q) == DictSet(info, "qubits", IntVal(q))

\* C11: the score is monotone. Of two statuses equal except for pending_jobs,
\* the one with more pending jobs never scores higher; of two statuses equal
\* except for qubits, the one with more qubits never scores lower.
C11_ScoreMonotone ==
    (ReturnedFrom("calculate_backend_score") /\ ret.value.kind = "points") =>
        LET info == ret.args[2]
            pending_jobs == Get(info, "pending_jobs", IntVal(0))
            qubits == Get(info, "qubits", IntVal(0))
        IN  /\ \A p \in 0..MaxPendingJobs :
                  p > pending_jobs.value =>
                      calculate_backend_score(ret.args[1], WithPendingJobs(info, p)).num
                          <= ret.value.num
            /\ qubits.kind = "int" =>
                  \A q \in 0..MaxQubits :
                      q > qubits.value =>
                          calculate_backend_score(ret.args[1], WithQubits(info, q)).num
                              >= ret.value.num

\* a status that one more pending job scores strictly lower and one more
\* qubit scores strictly higher
C11_Witness ==
    /\ ReturnedFrom("calculate_backend_score")
    /\ ret.value.kind = "points"
    /\ {"pending_jobs", "qubits"} \subseteq DOMAIN ret.args[2]
    /\ ret.args[2].qubits.kind = "int"
    /\ ret.args[2].pending_jobs.value < MaxPendingJobs
    /\ ret.args[2].qubits.value < MaxQubits
    /\ calculate_backend_score(ret.args[1],
            WithPendingJobs(ret.args[2], ret.args[2].pending_jobs.value + 1)).num
          < ret.value.num
    /\ calculate_backend_score(ret.args[1],
            WithQubits(ret.args[2], ret.args[2].qubits.value + 1)).num
          > ret.value.num

\* the positions of the snapshot's operational targets
OperationalTargets ==
    {i \in 1..Len(backend_status_cache) :
        Get(backend_status_cache[i].info, "operational", FALSE)}

\* the score of the snapshot's i-th target
ScoreOfTarget(i) ==
    calculate_backend_score(backend_status_cache[i].name, backend_status_cache[i].info)

\* C12: get_recommendations returns a list of operational targets only, each
\* once and with its own score, of length min(3, number of operational
\* targets), sorted by score descending, and no operational target left out
\* scores strictly higher than a returned one.
C12_TopThreeOperational ==
    ReturnedFrom("get_recommendations") =>
        /\ ret.value.kind = "ok"
        /\ LET recs == ret.value.result
               chosen == {i \in OperationalTargets :
                             \E r \in 1..Len(recs) :
                                 recs[r].name = backend_status_cache[i].name}
           IN  /\ \A r \in 1..Len(recs) :
                     \E i \in OperationalTargets :
                         /\ recs[r].name = backend_status_cache[i].name
                         /\ recs[r].score = ScoreOfTarget(i)
               /\ \A r1, r2 \in 1..Len(recs) :
                     r1 # r2 => recs[r1].name # recs[r2].name
               /\ Len(recs) = Min(3, Cardinality(OperationalTargets))
               /\ \A r1, r2 \in 1..Len(recs) :
                     r1 < r2 => recs[r1].score.num >= recs[r2].score.num
               /\ \A i \in OperationalTargets \ chosen :
                     \A r \in 1..Len(recs) :
                         ScoreOfTarget(i).num <= recs[r].score.num

\* four operational targets, the best of them last in the snapshot: it is
\* returned first
C12_Witness ==
    /\ ReturnedFrom("get_recommendations")
    /\ ret.value.kind = "ok"
    /\ Len(backend_status_cache) = 4
    /\ Cardinality(OperationalTargets) = 4
    /\ Len(ret.value.result) = 3
    /\ ret.value.result[1].name = backend_status_cache[4].name
    /\ ret.value.result[1].score.num > ret.value.result[2].score.num

\* the position in the snapshot of the target a recommendation names
SnapshotPosition(recommendation) ==
    CHOOSE i \in 1..Len(backend_status_cache) :
        backend_status_cache[i].name = recommendation.name

\* C29: operational targets of equal score are returned in the order in which
\* the snapshot holds them, and of two such targets the later one is returned
\* only if the earlier one is: a tie across the cut at three keeps the earlier.
C29_TiesKeepSnapshotOrder ==
    (ReturnedFrom("get_recommendations") /\ ret.value.kind = "ok") =>
        LET recs == ret.value.result
            returned == {SnapshotPosition(recs[r]) : r \in 1..Len(recs)}
        IN  /\ \A r1, r2 \in 1..Len(recs) :
                  (r1 < r2 /\ recs[r1].score = recs[r2].score) =>
                      SnapshotPosition(recs[r1]) < SnapshotPosition(recs[r2])
            /\ \A i, j \in OperationalTargets :
                  (i < j /\ ScoreOfTarget(i) = ScoreOfTarget(j) /\ j \in returned) =>
                      i \in returned

\* four operational targets, the first two tied, the last two tied below
\* them: the result is the first, the second and the third
C29_Witness ==
    /\ ReturnedFrom("get_recommendations")
    /\ ret.value.kind = "ok"
    /\ Len(backend_status_cache) = 4
    /\ Cardinality(OperationalTargets) = 4
    /\ ScoreOfTarget(1) = ScoreOfTarget(2)
    /\ ScoreOfTarget(3) = ScoreOfTarget(4)
    /\ ScoreOfTarget(3).num < ScoreOfTarget(1).num
    /\ [r \in 1..Len(ret.value.result) |-> ret.value.result[r].name]
          = <<backend_status_cache[1].name, backend_status_cache[2].name,
              backend_status_cache[3].name>>

\* C22: get_recommendations returns a list and raises nothing, also when an
\* operational target of the snapshot has unknown (non-integer) or missing
\* pending_jobs or qubits.
C22_RecommendationsNeverRaise ==
    ReturnedFrom("get_recommendations") => ret.value.kind = "ok"

----------------------------------------------------------------------------
(* Properties of the stores on a failing disk *)

\* the file does not hold what the store holds in memory
NotPersisted(file, store) == file # FileOf(store)

\* C18: whether or not the save succeeds, record_job_event,
\* record_job_completion, send_notification and mark_as_read return normally
\* and keep their change in memory: every event, sample and notification
\* recorded so far is in its store, the read flags just set are set, the
\* reads return them, and later changes are kept in the same way.
C18_PersistFailureKeepsMemory ==
    /\ ret.op \in {"record_job_event", "record_job_completion",
                   "send_notification", "mark_as_read"} => ret.value = NoneVal
    /\ \A j \in Jobs : get_job_timeline(job_history, j) = events_recorded[j]
    /\ \A t \in Targets : SamplesOf(t) = LastN(queue_recorded[t], MaxSamples)
    /\ \A u \in Users :
          [i \in 1..Len(LogOf(u)) |-> [LogOf(u)[i] EXCEPT !.read = FALSE]]
              = LastN(notifications_sent[u], MaxNotifications)
    /\ ReturnedFrom("mark_as_read") =>
          LET log == LogOf(ret.args[1])
          IN  IF ret.args[2] = NoneVal
              THEN \A i \in 1..Len(log) : log[i].read
              ELSE (0 <= ret.args[2].value /\ ret.args[2].value < Len(log)) =>
                       log[ret.args[2].value + 1].read
    /\ ReturnedFrom("get_job_timeline") =>
          ret.value = Get(events_recorded, ret.args[1], <<>>)
    /\ ReturnedFrom("get_user_notifications") =>
          ret.value = IF ret.args[2] THEN SelectSeq(LogOf(ret.args[1]), IsUnread)
                                     ELSE LogOf(ret.args[1])

\* nothing could be written since the start; a sample, a notification marked
\* as read and an event are in memory, and the timeline read returns the event
C18_Witness ==
    /\ disk # "ok"
    /\ job_history_file.state # "ok"
    /\ queue_history_file.state # "ok"
    /\ notifications_file.state # "ok"
    /\ NotPersisted(job_history_file, job_history)
    /\ \E t \in Targets : SamplesOf(t) # <<>>
    /\ \E u \in Users : LogOf(u) # <<>> /\ LogOf(u)[1].read
    /\ ReturnedFrom("get_job_timeline")
    /\ ret.value # <<>>

----------------------------------------------------------------------------
(* Properties of the handlers running in threads *)

\* how often x occurs in lst
Occurrences(lst, x) == Cardinality({i \in 1..Len(lst) : lst[i] = x})

\* every entry of recorded is in lst, as often as it was recorded
HoldsAll(lst, recorded) ==
    \A i \in 1..Len(recorded) :
        Occurrences(lst, recorded[i]) >= Occurrences(recorded, recorded[i])

\* C37: the list a handler got from get_job_timeline holds, for as long as
\* the handler holds it, what it held when it was returned, whatever
\* record_job_event calls are made meanwhile.
C37_HeldTimelineIsSnapshot ==
    \A t \in Threads :
        At(t, "api_job_timeline_1196") => HeldList(t) = threads[t].tmp

\* C38: get_analytics, run while other request threads record events of
\* jobs none of which is completed, returns a result, and the total it
\* reports is the number of jobs the store held at some moment of the call.
C38_ConcurrentAnalyticsCompletes ==
    ReturnedFrom("get_analytics") =>
        /\ ret.value.kind = "ok"
        /\ ret.value.result.total_jobs <= Cardinality(DOMAIN job_history.items)

\* C39: record_job_completion stores every sample whatever the sign of its
\* queue_time and run_time, and the sample counts toward the window of 1000;
\* the estimates read the retained window only: a target none of whose
\* retained samples has a positive queue_time gets "Unknown" from
\* estimate_average_wait, and one none of whose retained samples has a
\* positive run_time gets None from estimate_start_time, also when positive
\* samples were recorded earlier and evicted since.
C39_WindowCountsEverySample ==
    /\ ReturnedFrom("record_job_completion") =>
          LET kept == SamplesOf(ret.args[2])
              n == Len(queue_recorded[ret.args[2]])
          IN  /\ kept # <<>>
              /\ kept[Len(kept)].job_id = ret.args[1]
              /\ kept[Len(kept)].queue_time = ret.args[3]
              /\ kept[Len(kept)].run_time = ret.args[4]
              /\ Len(kept) = IF n < MaxSamples THEN n ELSE MaxSamples
    /\ (ReturnedFrom("estimate_average_wait") /\ PositiveQueueIdx(ret.args[1]) = {})
          => ret.value = Unknown
    /\ (ReturnedFrom("estimate_start_time") /\ PositiveRunIdx(ret.args[2]) = {})
          => ret.value = NoneVal

\* the window is full of samples without a positive queue_time, the last of
\* them negative, the positive one recorded first has been evicted, and the
\* average wait is "Unknown"
C39_Witness ==
    /\ ReturnedFrom("estimate_average_wait")
    /\ ret.value = Unknown
    /\ Len(SamplesOf("A")) = MaxSamples
    /\ Len(queue_recorded["A"]) > MaxSamples
    /\ queue_recorded["A"][1].queue_time > 0
    /\ SamplesOf("A")[MaxSamples].queue_time < 0
    /\ PositiveQueueIdx("A") = {}

\* C28: whenever no call is in progress, and no write has failed, the file of
\* each store holds what the store holds in memory, also after calls that
\* request threads made at the same time.
C28_FilesFollowMemory ==
    (AllReturned /\ disk = "ok") =>
        /\ load_history(job_history_file) = job_history
        /\ LoadFile(queue_history_file) = queue_history
        /\ LoadFile(notifications_file) = notifications

\* C2: once every record_job_event call made by the request threads has
\* returned, each job's timeline holds every event that was recorded for it,
\* two first events of one new job included.
C2_NoEventLost ==
    AllReturned =>
        \A j \in Jobs : HoldsAll(get_job_timeline(job_history, j), events_recorded[j])

\* C5: once every send_notification call made by the request threads has
\* returned, a user's log has lost nothing but what the cap evicts: it holds
\* min(sent, 100) entries, and among them each of the last 100 notifications
\* sent, which are all of them while fewer than 100 were sent.
C5_NoNotificationLost ==
    AllReturned =>
        \A u \in Users :
            /\ Len(LogOf(u)) = Min(Len(notifications_sent[u]), MaxNotifications)
            /\ HoldsAll(LogOf(u), LastN(notifications_sent[u], MaxNotifications))

\* how many entries the step removed from the front of the user's log
Evicted(u) ==
    Len(notifications[u])
        + (IF IsCallOf("send_notification") /\ ret'.args[1] = u THEN 1 ELSE 0)
        - Len(notifications'[u])

\* C33: a notification enters the log unread, and a notification that is read
\* stays read, and otherwise the same, for as long as the log retains it.
C33_ReadFlagMonotone ==
    [][ /\ IsCallOf("send_notification") =>
              LET log == notifications'[ret'.args[1]]
              IN  log[Len(log)].read = FALSE
        /\ \A u \in DOMAIN notifications :
              /\ u \in DOMAIN notifications'
              /\ \A i \in 1..Len(notifications[u]) :
                    (i > Evicted(u) /\ notifications[u][i].read) =>
                        notifications'[u][i - Evicted(u)] = notifications[u][i]
      ]_vars

\* the loaded log has grown past the cap: its oldest entry is gone, and the
\* entry behind it, which was read, now leads the log and is still read
C33_Witness ==
    /\ ReturnedFrom("send_notification")
    /\ "u1" \in DOMAIN notifications
    /\ Len(notifications["u1"]) = MaxNotifications
    /\ notifications["u1"][1].read
    /\ ~notifications["u1"][2].read
    /\ notifications["u1"][1].timestamp = 2 - MaxNotifications

\* For every earlier moment of user u's log, given by the number of
\* notifications u had received by then (at most MaxClock fewer than now):
\* the notification that was at position i (from 0) of the log of length len
\* is now, m notifications later, at position i - max(0, len + m - cap) if
\* that is not negative, and is gone from the log otherwise.
MovedByEvictions(u) ==
    LET all == notifications_sent[u]
        log == LogOf(u)
    IN  \A before \in 1..Len(all) :
            (Len(all) - before <= MaxClock) =>
                LET m == Len(all) - before
                    len == Min(before, MaxNotifications)
                    shift == IF len + m > MaxNotifications
                             THEN len + m - MaxNotifications ELSE 0
                IN  \A i \in 0..(len - 1) :
                        LET seen == all[before - len + i + 1]
                        IN  IF i - shift >= 0
                            THEN [log[i - shift + 1] EXCEPT !.read = FALSE] = seen
                            ELSE \A k \in 1..Len(log) :
                                    log[k].timestamp # seen.timestamp

\* C34: mark_as_read(user, i) sets the flag of the entry at position i of the
\* user's log as it is at the call, whatever view the caller took the index
\* from; and every send_notification moves the entries of a full log one
\* position towards the front, as MovedByEvictions states.
C34_IndexAddressesCurrentLog ==
    [][ /\ \A u \in Users :
              (IsCallOf("send_notification") /\ ret'.args[1] = u) =>
                  MovedByEvictions(u)'
        /\ (/\ IsCallOf("mark_as_read")
            /\ ret'.args[2] # NoneVal
            /\ ret'.args[1] \in DOMAIN notifications
            /\ ret'.args[2].value \in 0..(Len(notifications[ret'.args[1]]) - 1)) =>
               notifications' =
                   [notifications EXCEPT
                       ![ret'.args[1]][ret'.args[2].value + 1].read = TRUE]
      ]_vars

\* index 1 used after the loaded log grew past the cap: the entry marked is
\* the one that was at position 2 when the log was loaded (unread then), and
\* the entry that was at position 1 now leads the log
C34_Witness ==
    /\ ReturnedFrom("mark_as_read")
    /\ ret.args[1] = "u1"
    /\ ret.args[2] = IntVal(1)
    /\ Len(notifications_sent["u1"]) = MaxNotifications + 1
    /\ LogOf("u1")[2].read
    /\ LogOf("u1")[2].timestamp = 3 - MaxNotifications
    /\ LogOf("u1")[1].timestamp = 2 - MaxNotifications
    /\ ~LogOf("u1")[3].read

----------------------------------------------------------------------------
(* Properties of the components' construction *)

\* the file has not been written since it was found missing or unparseable
NotLoaded(file) == file.state \in {"missing", "corrupt"}

\* the dict holds one key, with a list of one entry
HoldsOneEntry(store, key) == DOMAIN store = {key} /\ Len(store[key]) = 1

\* C23: a component constructed over a missing or unparseable file holds an
\* empty store, and every operation then does what it does on an empty store:
\* the reads return the empty or neutral result, mark_as_read changes nothing,
\* and the first recording leaves exactly the one record in the store and in
\* the file.
C23_MissingOrCorruptStartsEmpty ==
    [][ /\ NotLoaded(job_history_file) =>
            /\ job_history = EmptyHistory
            /\ IsCallOf("get_job_timeline") => ret'.value = <<>>
            /\ IsCallOf("get_analytics") =>
                  /\ ret'.value.kind = "ok"
                  /\ ret'.value.result.total_jobs = 0
                  /\ ret'.value.result.recent_activity = <<>>
            /\ IsCallOf("record_job_event") =>
                  /\ job_history'.keys = <<ret'.args[1]>>
                  /\ HoldsOneEntry(job_history'.items, ret'.args[1])
                  /\ job_history_file' = FileOf(job_history')
        /\ NotLoaded(queue_history_file) =>
            /\ queue_history = EmptyDict
            /\ IsCallOf("estimate_average_wait") => ret'.value = Unknown
            /\ IsCallOf("estimate_start_time") => ret'.value = NoneVal
            /\ IsCallOf("record_job_completion") =>
                  /\ HoldsOneEntry(queue_history', ret'.args[2])
                  /\ queue_history_file' = FileOf(queue_history')
        /\ NotLoaded(notifications_file) =>
            /\ notifications = EmptyDict
            /\ IsCallOf("get_user_notifications") => ret'.value = <<>>
            /\ IsCallOf("mark_as_read") =>
                  UNCHANGED <<notifications, notifications_file>>
            /\ IsCallOf("send_notification") =>
                  /\ HoldsOneEntry(notifications', ret'.args[1])
                  /\ notifications_file' = FileOf(notifications')
      ]_vars

\* the analyzer over an unparseable file, the predictor and the notification
\* manager over no file, after a recording in the first and reads of the others
C23_Witness ==
    /\ job_history_file.state = "ok"
    /\ Cardinality(DOMAIN job_history.items) = 1
    /\ queue_history_file = MissingFile
    /\ notifications_file = MissingFile
    /\ ReturnedFrom("get_user_notifications")
    /\ ret.value = <<>>

----------------------------------------------------------------------------
(* Properties of the reads *)

\* C25: a read of a key the store does not hold returns the neutral result
\* and raises nothing: get_job_timeline and get_user_notifications return an
\* empty list, estimate_average_wait returns "Unknown", estimate_start_time
\* returns None; and the read leaves the stores and their files as they were,
\* without an entry for the key.
C25_UnknownKeyReadsNeutral ==
    [][ /\ (IsCallOf("get_job_timeline")
              /\ ret'.args[1] \notin DOMAIN job_history.items) =>
                 ret'.value = <<>>
        /\ (IsCallOf("get_user_notifications")
              /\ ret'.args[1] \notin DOMAIN notifications) =>
                 ret'.value = <<>>
        /\ (IsCallOf("estimate_average_wait")
              /\ ret'.args[1] \notin DOMAIN queue_history) =>
                 ret'.value = Unknown
        /\ (IsCallOf("estimate_start_time")
              /\ ret'.args[2] \notin DOMAIN queue_history) =>
                 ret'.value = NoneVal
        /\ (\E op \in {"get_job_timeline", "get_user_notifications",
                       "estimate_average_wait", "estimate_start_time"} :
               IsCallOf(op)) =>
                 UNCHANGED <<job_history, job_history_file, notifications,
                             notifications_file, queue_history, queue_history_file>>
      ]_vars

\* a read of the unknown target "A" from a predictor that holds samples of
\* "B", beside a history and a notification log that hold other keys
C25_Witness ==
    /\ ReturnedFrom("estimate_average_wait")
    /\ ret.args[1] \notin DOMAIN queue_history
    /\ DOMAIN queue_history # {}
    /\ ret.value = Unknown
    /\ "job9" \notin DOMAIN job_history.items
    /\ DOMAIN job_history.items # {}
    /\ DOMAIN notifications = {"u1"}

\* the query operations and the operations that change a store
Queries ==
    {"get_job_timeline", "get_analytics", "estimate_start_time",
     "estimate_average_wait", "get_recommendations", "get_user_notifications"}

Mutations ==
    {"record_job_event", "record_job_completion", "send_notification",
     "mark_as_read"}

\* C32: the six query operations leave the job history, the queue samples,
\* the notification logs, the three files and the snapshot they were given
\* as they were; a step that changes any of these is an appending operation
\* or mark_as_read.
C32_QueriesArePureReads ==
    [][ /\ (\E op \in Queries : IsCallOf(op)) =>
              UNCHANGED <<job_history, job_history_file, queue_history,
                          queue_history_file, notifications, notifications_file,
                          backend_status_cache>>
        /\ ~(UNCHANGED <<job_history, job_history_file, queue_history,
                         queue_history_file, notifications, notifications_file,
                         backend_status_cache>>) =>
              \E op \in Mutations : IsCallOf(op)
      ]_vars

\* get_recommendations has answered from a snapshot with a target it skips,
\* beside a history and a log that hold entries and a queue file that still
\* does not parse
C32_Witness ==
    /\ ReturnedFrom("get_recommendations")
    /\ Len(ret.value.result) = 1
    /\ Len(backend_status_cache) = 2
    /\ DOMAIN job_history.items # {}
    /\ DOMAIN notifications # {}
    /\ queue_history_file.state # "ok"

----------------------------------------------------------------------------
(* Properties of the analytics page *)

\* the job list the analytics call of ret worked on: the user's cached list
AnalysedJobs == user_jobs[ret.args[1]].data

\* the positions of the jobs with this status, whatever its case
WithStatus(jobs, status) == {i \in 1..Len(jobs) : Upper(jobs[i].status) = status}

\* the positions of the jobs on this backend
OnBackend(jobs, backend) == {i \in 1..Len(jobs) : jobs[i].backend = backend}

\* d counts, for every key in keys and for no other, the positions of jobs
\* that positions(jobs, key) gives
CountsOfStatus(d, jobs, keys) ==
    /\ DOMAIN d = keys
    /\ \A k \in keys : d[k] = Cardinality(WithStatus(jobs, k))

CountsOfBackend(d, jobs, keys) ==
    /\ DOMAIN d = keys
    /\ \A k \in keys : d[k] = Cardinality(OnBackend(jobs, k))

\* recent_activity lists the first ten jobs, and no job left out was created
\* after a job that is listed
TenMostRecent(activity, jobs) ==
    /\ Len(activity) = Min(10, Len(jobs))
    /\ \A i \in 1..Len(activity) :
          /\ activity[i].job_id = jobs[i].job_id
          /\ activity[i].last_event = jobs[i].status
          /\ activity[i].timestamp = jobs[i].creation_time
          /\ \A k \in (Len(activity) + 1)..Len(jobs) :
                (jobs[i].creation_time.kind = "int"
                   /\ jobs[k].creation_time.kind = "int") =>
                      jobs[k].creation_time.value <= jobs[i].creation_time.value

\* what the claim says of every field but jobs_by_backend
AnalyticsOfJobList ==
    LET jobs == AnalysedJobs
        data == ret.value.result
    IN  IF jobs # <<>>
        THEN /\ ret.value.kind = "ok"
             /\ data.total_jobs = Len(jobs)
             /\ data.success_rate =
                   Ratio(100 * Cardinality(WithStatus(jobs, "DONE")
                                             \cup WithStatus(jobs, "COMPLETED")),
                         Len(jobs))
             /\ CountsOfStatus(data.jobs_by_status, jobs,
                               {Upper(jobs[i].status) : i \in 1..Len(jobs)})
             /\ TenMostRecent(data.recent_activity, jobs)
        ELSE \* only now is the history store consulted
             /\ ret.value = get_analytics(job_history, [id |-> ret.args[1]])
             /\ ret.value.kind = "ok"
             /\ ret.value.result.success_rate = 0

\* C27 as stated: jobs_by_backend is the frequency count of the backends of
\* the list, like jobs_by_status of its statuses.
C27_AnalyticsOfSuppliedJobs ==
    (ReturnedFrom("analytics") /\ ret.args[1] \in DOMAIN user_jobs) =>
        /\ AnalyticsOfJobList
        /\ AnalysedJobs # <<>> =>
              CountsOfBackend(ret.value.result.jobs_by_backend, AnalysedJobs,
                              {AnalysedJobs[i].backend : i \in 1..Len(AnalysedJobs)})

\* C27: for a job list that is not empty, success_rate = completed / total *
\* 100 with DONE and COMPLETED counted as completed, jobs_by_status counts the
\* jobs per status, jobs_by_backend counts the jobs per backend but leaves out
\* the jobs whose backend is "Unknown", and recent_activity holds the first 10
\* jobs of the list, which is sorted by creation time, latest first; the
\* history store is consulted only when the list is empty, and success_rate
\* is then 0.
C27_AnalyticsOfSuppliedJobsKnownBackends ==
    (ReturnedFrom("analytics") /\ ret.args[1] \in DOMAIN user_jobs) =>
        /\ AnalyticsOfJobList
        /\ AnalysedJobs # <<>> =>
              CountsOfBackend(ret.value.result.jobs_by_backend, AnalysedJobs,
                              {AnalysedJobs[i].backend : i \in 1..Len(AnalysedJobs)}
                                 \ {"Unknown"})

\* more than ten jobs, some of them completed, some without a backend
C27_Witness ==
    /\ ReturnedFrom("analytics")
    /\ ret.args[1] \in DOMAIN user_jobs
    /\ Len(AnalysedJobs) > 10
    /\ Len(ret.value.result.recent_activity) = 10
    /\ ret.value.result.success_rate = Ratio(600, 12)
    /\ OnBackend(AnalysedJobs, "Unknown") # {}

----------------------------------------------------------------------------
(* Properties of the per-user caches of app.py *)

\* the cache holds data for the name that was stored less than cache_timeout
\* seconds ago
IsFresh(backend_name) ==
    /\ backend_name \in DOMAIN fetcher_cache
    /\ clock - fetcher_cache[backend_name].timestamp < cache_timeout * TicksPerSecond

\* C36 (a step that leaves the clock alone is a call: only the passing of
\* time moves it): get_backend_details answers from the cache, without an attempt to
\* reach the remote service, exactly when data for the name was stored less
\* than cache_timeout seconds earlier; otherwise it makes one attempt, stores
\* what it fetched with the time, and stores nothing when it answers with the
\* fallback; the cache never holds a fallback.
C36_CacheServesFreshFetches ==
    [][ \A name \in Targets :
           (IsCallOf("get_backend_details") /\ ret'.args[1] = name
              /\ clock' = clock) =>
               /\ IsFresh(name) =>
                     /\ pulls' = pulls
                     /\ ret'.value = fetcher_cache[name].data
                     /\ fetcher_cache' = fetcher_cache
               /\ ~IsFresh(name) =>
                     /\ pulls' = pulls + 1
                     /\ IF ret'.value = create_fallback_backend_data(name)
                        THEN fetcher_cache' = fetcher_cache
                        ELSE fetcher_cache' =
                                DictSet(fetcher_cache, name,
                                        [data |-> ret'.value, timestamp |-> clock])
               /\ \A other \in DOMAIN fetcher_cache' :
                     fetcher_cache'[other].data
                         # create_fallback_backend_data(other)
      ]_vars

\* a call one tick before the timeout of the only fetch made so far is
\* answered from the cache
C36_Witness ==
    /\ ReturnedFrom("get_backend_details")
    /\ pulls = 1
    /\ ret.args[1] \in DOMAIN fetcher_cache
    /\ ret.value = fetcher_cache[ret.args[1]].data
    /\ clock - fetcher_cache[ret.args[1]].timestamp
          = cache_timeout * TicksPerSecond - 1

\* user u has no entry in any of the three dicts
HasNoEntry(u) ==
    /\ u \notin DOMAIN user_services
    /\ u \notin DOMAIN user_backends
    /\ u \notin DOMAIN user_jobs

\* C35: once logout has removed the entries of user u, u has no entry in
\* user_services, user_backends or user_jobs until a request of u that
\* starts afterwards builds the service handles again: no step of a request
\* or of the refresh thread that was already under way brings one back.
C35_NoEntryAfterLogout ==
    [][ \A u \in Users :
           (HasNoEntry(u) /\ u \notin DOMAIN user_services') => HasNoEntry(u)'
      ]_vars

\* the cache of some user holds a finished job that ran on target t
ObservedCompleted(t) ==
    \E user_id \in DOMAIN user_jobs :
        \E i \in 1..Len(user_jobs[user_id].data) :
            /\ user_jobs[user_id].data[i].backend = t
            /\ Upper(user_jobs[user_id].data[i].status) \in {"DONE", "COMPLETED"}

\* C31: whenever a handler or the refresh thread has seen a finished job of a
\* target, the predictor eventually holds a sample for that target.
C31_CompletedJobsFeedPredictor ==
    \A t \in Targets : ObservedCompleted(t) ~> (SamplesOf(t) # <<>>)

\* the step in which the refresh thread ends a cycle
RefreshCycleEnds == refresh_thread.pc = "567" /\ refresh_thread'.pc = "564"

\* the cache holds, for this user, data pulled since the cycle began
PulledSince(cache, user_id, since) ==
    user_id \in DOMAIN cache /\ cache[user_id].pull > since

\* C21: when a cycle of the background refresh thread ends, user_backends and
\* user_jobs hold, for every user that was in user_services when the cycle
\* began, data pulled during that cycle.
C21_CycleRefreshesTrackedUsers ==
    [][RefreshCycleEnds =>
         \A user_id \in refresh_thread.tracked :
            /\ PulledSince(user_backends', user_id, refresh_thread.since)
            /\ PulledSince(user_jobs', user_id, refresh_thread.since)]_vars

====
